---- MODULE Spec2Model ----
(***************************************************************************)
(* JULEA transformation objects: the transformation codec, the client-side *)
(* exec functions of JTransformationObject, and the request handlers of    *)
(* the storage server (jd_on_run).                                         *)
(*                                                                         *)
(* Sizes are scaled: buffers hold a few bytes and the server's scratch     *)
(* region J_STRIPE_SIZE holds a few bytes, so that every branch of the     *)
(* handlers is reached with short inputs.                                  *)
(***************************************************************************)
EXTENDS Integers, Sequences, FiniteSets, TLC

VARIABLES
    cfg,      \* the run: client-side backend or remote server, safety, the object's
              \* transformation type and mode, whether a call may fail
    store,    \* the object backend's view of the one underlying object
    kv,       \* the KV metadata record of the object, or NoRecord
    object,   \* the JTransformationObject handle of the application
    res,      \* what the last executed run returned to the application
    hist,     \* history: writes executed so far
    pool,     \* the connection pool for (OBJECT, index)
    srv,      \* what the server worker did for the last request it served
    halt      \* "no", "crashed" (abort / memory error), "blocked" (waits for a
              \* reply forever) or "starved" (waits for a connection forever)

vars == <<cfg, store, kv, object, res, hist, pool, srv, halt>>

----------------------------------------------------------------------------
(* Bounds of the model *)

MaxLen == 3
MaxOps == 2
MaxSteps == 2
MaxFaultSteps == 1
MaxOff == 2
MaxOpSize == 2
WordBase == 8
J_STRIPE_SIZE == 4
Epoch == 100

(* Bytes the application writes, and bytes found in memory nobody initialised *)
UserBytes == {5, 7}
JunkBytes == {0, 9}

Min(a, b) == IF a < b THEN a ELSE b
Max(a, b) == IF a > b THEN a ELSE b

(* s[i] for a read at index i (1-based) that may lie outside the buffer *)
At(s, i, junk) == IF i >= 1 /\ i <= Len(s) THEN s[i] ELSE junk

Fill(n, b) == [i \in 1..n |-> b]

----------------------------------------------------------------------------
(* Transformation codec *)

Types == {"NONE", "XOR", "RLE", "LZ4"}
Modes == {"CLIENT", "TRANSPORT", "SERVER"}
Callers == {"CLIENT_READ", "CLIENT_WRITE", "SERVER_READ", "SERVER_WRITE"}

(* j_transformation_new: the type decides whether partial edits are possible *)
j_transformation_new(type, mode) ==
    [type |-> type,
     mode |-> mode,
     changes_size |-> (type = "RLE"),
     partial_edit |-> CASE type = "NONE" -> TRUE
                        [] type = "XOR" -> TRUE
                        [] type = "RLE" -> FALSE
                        [] OTHER -> TRUE]

(* need_whole_object: true iff the transformation has no partial access *)
j_transformation_need_whole_object(trafo, caller) ==
    ~trafo.partial_edit

(* A mode switch that takes TRANSPORT for CLIENT: the server callers do    *)
(* nothing for a TRANSPORT object                                          *)
DirectionTransportAsClient(mode, caller) ==
    CASE mode = "SERVER" ->
            IF caller = "CLIENT_READ" \/ caller = "CLIENT_WRITE" THEN "skip"
            ELSE IF caller = "SERVER_READ" THEN "inverse" ELSE "forward"
      [] OTHER ->
            IF caller = "SERVER_READ" \/ caller = "SERVER_WRITE" THEN "skip"
            ELSE IF caller = "CLIENT_READ" THEN "inverse" ELSE "forward"

(* The switch on trafo->mode in j_transformation_apply:                     *)
(* "skip" (return), "inverse" or "forward"                                  *)
Direction(mode, caller) ==
    CASE mode = "TRANSPORT" ->
            IF caller = "CLIENT_READ" \/ caller = "SERVER_WRITE"
            THEN "inverse" ELSE "forward"
      [] mode = "SERVER" ->
            IF caller = "CLIENT_READ" \/ caller = "CLIENT_WRITE" THEN "skip"
            ELSE IF caller = "SERVER_READ" THEN "inverse" ELSE "forward"
      [] OTHER ->
            IF caller = "SERVER_READ" \/ caller = "SERVER_WRITE" THEN "skip"
            ELSE IF caller = "CLIENT_READ" THEN "inverse" ELSE "forward"

(* j_transformation_apply_xor: in = input + *offset; out[i] = in[i] ^ 255;  *)
(* *offset = 0.  Bytes past the end of the input buffer are junk.           *)
j_transformation_apply_xor(input, length, offset, junk) ==
    [data |-> [i \in 1..length |-> 255 - At(input, offset + i, junk)],
     length |-> length,
     offset |-> 0,
     ub |-> FALSE]

(* Run-length encoder: pairs (copies, value), copies + 1 repeats, a run     *)
(* ends when the value changes or copies reaches 255.                       *)
RECURSIVE rle_encode(_, _, _, _)
rle_encode(in, i, copies, value) ==
    IF i > Len(in) THEN <<copies, value>>
    ELSE IF in[i] = value /\ copies < 255
         THEN rle_encode(in, i + 1, copies + 1, value)
         ELSE <<copies, value>> \o rle_encode(in, i + 1, 0, in[i])

(* The sizing pass of the encoder (the dry run that sizes the output       *)
(* buffer): 2 bytes per mismatch with the first value, plus 2.  What the   *)
(* encoding pass writes beyond that size lies outside the buffer: those    *)
(* bytes of the result are junk                                            *)
RECURSIVE rle_size(_, _, _, _)
rle_size(in, i, copies, value) ==
    IF i > Len(in) THEN 2
    ELSE IF in[i] = value /\ copies < 255
         THEN rle_size(in, i + 1, copies + 1, value)
         ELSE 2 + rle_size(in, i + 1, copies, value)

j_transformation_apply_rle(input, length, offset, junk) ==
    LET in == [i \in 1..length |-> At(input, i, junk)]
        out == IF length > 0 THEN rle_encode(in, 2, 0, in[1]) ELSE <<>>
        size == IF length > 0 THEN rle_size(in, 2, 0, in[1]) ELSE 0
    IN  [data |-> [i \in 1..Len(out) |-> IF i <= size THEN out[i] ELSE junk],
         length |-> Len(out), offset |-> 0,
         ub |-> Len(out) > size]

(* Run-length decoder: for (i = 1; i < length; i += 2) emit in[i-1]+1 times in[i] *)
RECURSIVE rle_decode(_, _)
rle_decode(in, i) ==
    IF i >= Len(in) THEN <<>>
    ELSE Fill(in[i] + 1, in[i + 1]) \o rle_decode(in, i + 2)

j_transformation_apply_rle_inverse(input, length, offset, junk) ==
    LET in == [i \in 1..length |-> At(input, i, junk)]
        out == rle_decode(in, 1)
    IN  [data |-> out, length |-> Len(out), offset |-> 0, ub |-> FALSE]

(* The switch on trafo->type in j_transformation_apply *)
apply_type(trafo, inverse, input, length, offset, junk) ==
    CASE trafo.type = "XOR" -> j_transformation_apply_xor(input, length, offset, junk)
      [] trafo.type = "RLE" ->
            IF inverse THEN j_transformation_apply_rle_inverse(input, length, offset, junk)
            ELSE j_transformation_apply_rle(input, length, offset, junk)
      [] OTHER -> [data |-> input, length |-> length, offset |-> offset, ub |-> FALSE]

(* The end of j_transformation_apply, lines 278-293: b is the buffer, the  *)
(* length and the offset the codec returned                                *)
apply_return(b, output, outlength, outoffset, caller, junk) ==
    IF caller \in {"CLIENT_READ", "SERVER_READ"}
    THEN [output |-> [i \in 1..Len(output) |->
                         IF i <= outlength THEN At(b.data, i, junk) ELSE output[i]],
          null |-> FALSE, outlength |-> outlength, outoffset |-> outoffset,
          ub |-> b.ub \/ outlength > Len(output)]
    ELSE [output |-> b.data, null |-> FALSE, outlength |-> b.length,
          outoffset |-> b.offset, ub |-> b.ub]

(* j_transformation_apply.  output/outnull is the caller's *output buffer  *)
(* (outnull: it is NULL), outlength and outoffset what *outlength and      *)
(* *outoffset hold at the call.  The call returns at once when *output is  *)
(* NULL, when the mode leaves the work to the other side and for types     *)
(* without a codec.  A read caller gets the first outlength bytes of the   *)
(* codec's buffer copied into its buffer, a write caller gets the codec's  *)
(* buffer, length and offset.                                              *)
j_transformation_apply(trafo, input, inlength, inoffset, output, outnull, outlength, outoffset, caller, junk) ==
    IF outnull \/ Direction(trafo.mode, caller) = "skip" \/ trafo.type \notin {"XOR", "RLE"}
    THEN [output |-> output, null |-> outnull, outlength |-> outlength,
          outoffset |-> outoffset, ub |-> FALSE]
    ELSE apply_return(apply_type(trafo, Direction(trafo.mode, caller) = "inverse",
                                 input, inlength, inoffset, junk),
                      output, outlength, outoffset, caller, junk)

----------------------------------------------------------------------------
(* Object backend: one object, a byte sequence once it exists, with the    *)
(* time of its last modification (Epoch and later).  A call whose ok       *)
(* argument is FALSE fails and changes nothing.                            *)

NoObject == [exists |-> FALSE, data |-> <<>>, mtime |-> 0]

backend_create(st, ok) ==
    IF ok THEN [ok |-> TRUE,
                store |-> [exists |-> TRUE, data |-> st.data,
                           mtime |-> IF st.exists THEN st.mtime ELSE Epoch]]
    ELSE [ok |-> FALSE, store |-> st]

backend_open(st, ok) == ok /\ st.exists

backend_delete(st, ok) ==
    IF ok /\ st.exists THEN [ok |-> TRUE, store |-> NoObject]
    ELSE [ok |-> FALSE, store |-> st]

(* write(handle, buf, len, off): bytes off .. off+len-1 become buf, a gap   *)
(* between the old end and off reads as zero                                *)
backend_write(st, buf, len, off, ok) ==
    IF ok /\ st.exists
    THEN [ok |-> TRUE, nbytes |-> len,
          store |-> [st EXCEPT !.mtime = @ + 1, !.data =
                        [i \in 1..Max(Len(st.data), off + len) |->
                            IF i > off /\ i <= off + len THEN buf[i - off]
                            ELSE IF i <= Len(st.data) THEN st.data[i] ELSE 0]]]
    ELSE [ok |-> FALSE, nbytes |-> 0, store |-> st]

(* read(handle, buf, len, off): the bytes of [off, off+len) that exist *)
backend_read(st, len, off, ok) ==
    IF ok /\ st.exists
    THEN LET n == IF off >= Len(st.data) THEN 0 ELSE Min(len, Len(st.data) - off)
         IN  [ok |-> TRUE, nbytes |-> n, data |-> [i \in 1..n |-> st.data[off + i]]]
    ELSE [ok |-> FALSE, nbytes |-> 0, data |-> <<>>]

(* status(handle, &modification_time, &size): the time of the last         *)
(* modification and the physical size                                      *)
backend_status(st, ok) ==
    IF ok /\ st.exists THEN [ok |-> TRUE, mtime |-> st.mtime, size |-> Len(st.data)]
    ELSE [ok |-> FALSE, mtime |-> 0, size |-> 0]

----------------------------------------------------------------------------
(* Server: jd_on_run.  A handler takes the request as the server parses it *)
(* and returns the new store, the reply messages it sent and a log of the  *)
(* backend calls and sends in the order they happened.                     *)

SafetyFlags == {"NETWORK", "STORAGE"}

Event(ev, off, len, ok) == [ev |-> ev, off |-> off, len |-> len, ok |-> ok]

NewReply == [count |-> 0, words |-> <<>>, bulk |-> <<>>]

(* j_message_add_operation + j_message_append_8 [+ j_message_add_send] *)
ReplyAdd(reply, words, bulk) ==
    [count |-> reply.count + 1,
     words |-> reply.words \o words,
     bulk |-> reply.bulk \o bulk]

ServerStart(st) ==
    [store |-> st, log |-> <<>>, replies |-> <<>>, reply |-> NewReply,
     opened |-> FALSE, used |-> 0, merge_length |-> 0, merge_offset |-> 0,
     stream |-> <<>>, calls |-> 0, failed |-> FALSE, ub |-> FALSE, stuck |-> FALSE]

(* j_message_send(reply, connection) *)
SendReply(s) ==
    [s EXCEPT !.replies = Append(@, s.reply),
              !.log = Append(@, Event("reply", 0, s.reply.count, TRUE))]

(* The next backend call of this request fails iff its number is in fails *)
CallOk(s, fails) == (s.calls + 1) \notin fails

(* J_MESSAGE_OBJECT_CREATE: one backend create per name *)
RECURSIVE ServerCreateLoop(_, _, _, _, _)
ServerCreateLoop(s, i, count, flags, fails) ==
    IF i > count THEN s
    ELSE LET c == backend_create(s.store, CallOk(s, fails))
             s1 == [s EXCEPT !.store = c.store, !.calls = @ + 1,
                             !.failed = @ \/ ~c.ok,
                             !.log = Append(@, Event("create", 0, 0, c.ok))]
             s2 == IF c.ok /\ "STORAGE" \in flags
                   THEN [s1 EXCEPT !.log = Append(@, Event("sync", 0, 0, TRUE))]
                   ELSE s1
             s3 == IF c.ok
                   THEN [s2 EXCEPT !.log = Append(@, Event("close", 0, 0, TRUE))]
                   ELSE s2
             s4 == IF "NETWORK" \in flags
                   THEN [s3 EXCEPT !.reply = ReplyAdd(@, <<>>, <<>>)]
                   ELSE s3
         IN  ServerCreateLoop(s4, i + 1, count, flags, fails)

ServerCreate(st, count, flags, fails) ==
    LET s == ServerCreateLoop(ServerStart(st), 1, count, flags, fails)
    IN  IF "NETWORK" \in flags THEN SendReply(s) ELSE s

(* J_MESSAGE_OBJECT_DELETE: open and delete per name *)
RECURSIVE ServerDeleteLoop(_, _, _, _, _)
ServerDeleteLoop(s, i, count, flags, fails) ==
    IF i > count THEN s
    ELSE LET o == backend_open(s.store, CallOk(s, fails))
             d == IF o THEN backend_delete(s.store, TRUE)
                  ELSE [ok |-> FALSE, store |-> s.store]
             s1 == [s EXCEPT !.store = d.store, !.calls = @ + 1,
                             !.failed = @ \/ ~d.ok,
                             !.log = Append(@, Event("delete", 0, 0, d.ok))]
             s2 == IF "NETWORK" \in flags
                   THEN [s1 EXCEPT !.reply = ReplyAdd(@, <<>>, <<>>)]
                   ELSE s1
         IN  ServerDeleteLoop(s2, i + 1, count, flags, fails)

ServerDelete(st, count, flags, fails) ==
    LET s == ServerDeleteLoop(ServerStart(st), 1, count, flags, fails)
    IN  IF "NETWORK" \in flags THEN SendReply(s) ELSE s

(* j_backend_object_open at the start of a read or write request *)
ServerOpen(s, fails) ==
    LET o == backend_open(s.store, CallOk(s, fails))
    IN  [s EXCEPT !.opened = o, !.calls = @ + 1, !.failed = @ \/ ~o,
                  !.log = Append(@, Event("open", 0, 0, o))]

(* j_memory_chunk_get: NULL when the request does not fit the rest of the chunk *)
j_memory_chunk_get(used, length) ==
    IF used + length > J_STRIPE_SIZE THEN [buf |-> FALSE, used |-> used]
    ELSE [buf |-> TRUE, used |-> used + length]

(* A read handler that drops the unsent reply when the scratch region     *)
(* overflows instead of sending it                                         *)
ServerReadOpDropping(s, op, fails) ==
    LET g1 == j_memory_chunk_get(s.used, op.length)
        sf == IF g1.buf THEN s ELSE [s EXCEPT !.reply = NewReply, !.used = 0]
        g2 == IF g1.buf THEN g1 ELSE j_memory_chunk_get(0, op.length)
        r  == backend_read(sf.store, op.length, op.offset,
                           sf.opened /\ g2.buf /\ CallOk(sf, fails))
    IN  [sf EXCEPT !.used = g2.used, !.calls = @ + 1,
                   !.failed = @ \/ ~r.ok,
                   !.ub = @ \/ ~g2.buf,
                   !.log = Append(@, Event("read", op.offset, op.length, r.ok)),
                   !.reply = ReplyAdd(@, <<r.nbytes>>, <<r.data>>)]

(* J_MESSAGE_OBJECT_READ: one operation of the loop *)
ServerReadOp(s, op, fails) ==
    LET g1 == j_memory_chunk_get(s.used, op.length)
        sf == IF g1.buf THEN s
              ELSE [SendReply(s) EXCEPT !.reply = NewReply, !.used = 0]
        g2 == IF g1.buf THEN g1 ELSE j_memory_chunk_get(0, op.length)
        r  == backend_read(sf.store, op.length, op.offset,
                           sf.opened /\ g2.buf /\ CallOk(sf, fails))
    IN  [sf EXCEPT !.used = g2.used, !.calls = @ + 1,
                   !.failed = @ \/ ~r.ok,
                   !.ub = @ \/ ~g2.buf,
                   !.log = Append(@, Event("read", op.offset, op.length, r.ok)),
                   !.reply = ReplyAdd(@, <<r.nbytes>>, <<r.data>>)]

RECURSIVE ServerReadLoop(_, _, _, _)
ServerReadLoop(s, ops, i, fails) ==
    IF i > Len(ops) THEN s
    ELSE ServerReadLoop(ServerReadOp(s, ops[i], fails), ops, i + 1, fails)

ServerRead(st, ops, fails) ==
    LET s0 == ServerOpen(ServerStart(st), fails)
        s1 == ServerReadLoop(s0, ops, 1, fails)
        s2 == [s1 EXCEPT !.log = Append(@, Event("close", 0, 0, TRUE))]
    IN  [SendReply(s2) EXCEPT !.used = 0]

(* One backend write of the merged range: the payload is read from the     *)
(* connection into the scratch buffer first                                *)
ServerFlush(s, fails) ==
    IF Len(s.stream) < s.merge_length
    THEN [s EXCEPT !.stuck = TRUE]
    ELSE LET buf == SubSeq(s.stream, 1, s.merge_length)
             w == backend_write(s.store, buf, s.merge_length, s.merge_offset,
                                s.opened /\ CallOk(s, fails))
         IN  [s EXCEPT !.store = w.store, !.calls = @ + 1,
                       !.failed = @ \/ ~w.ok,
                       !.ub = @ \/ s.merge_length > J_STRIPE_SIZE,
                       !.stream = SubSeq(@, s.merge_length + 1, Len(@)),
                       !.log = Append(@, Event("write", s.merge_offset, s.merge_length, w.ok))]

(* J_MESSAGE_OBJECT_WRITE: one operation of the loop *)
ServerWriteOp(s, op, flags, fails) ==
    LET merge == s.merge_length > 0
                 /\ s.merge_offset + s.merge_length = op.offset
                 /\ s.merge_length + op.length <= J_STRIPE_SIZE
        s1 == IF merge THEN [s EXCEPT !.merge_length = @ + op.length]
              ELSE IF s.merge_length > 0
                   THEN [ServerFlush(s, fails) EXCEPT !.merge_length = 0, !.merge_offset = 0]
                   ELSE s
        s2 == IF s1.merge_length = 0
              THEN [s1 EXCEPT !.merge_length = op.length, !.merge_offset = op.offset]
              ELSE s1
    IN  IF "NETWORK" \in flags
        THEN [s2 EXCEPT !.reply = ReplyAdd(@, <<op.length>>, <<>>)]
        ELSE s2

RECURSIVE ServerWriteLoop(_, _, _, _, _)
ServerWriteLoop(s, ops, i, flags, fails) ==
    IF i > Len(ops) \/ s.stuck THEN s
    ELSE ServerWriteLoop(ServerWriteOp(s, ops[i], flags, fails), ops, i + 1, flags, fails)

(* A write handler that syncs before it flushes the tail *)
ServerWriteEndSyncFirst(s, flags, fails) ==
    LET s1 == IF "STORAGE" \in flags
              THEN [s EXCEPT !.log = Append(@, Event("sync", 0, 0, TRUE))]
              ELSE s
        s2 == IF s1.merge_length > 0 THEN ServerFlush(s1, fails) ELSE s1
        s3 == [s2 EXCEPT !.log = Append(@, Event("close", 0, 0, TRUE))]
    IN  IF s2.stuck THEN s2
        ELSE IF "NETWORK" \in flags THEN SendReply(s3) ELSE s3

(* After the loop: flush the tail, sync, close, reply *)
ServerWriteEnd(s, flags, fails) ==
    LET s1 == IF s.merge_length > 0 THEN ServerFlush(s, fails) ELSE s
        s2 == IF "STORAGE" \in flags
              THEN [s1 EXCEPT !.log = Append(@, Event("sync", 0, 0, TRUE))]
              ELSE s1
        s3 == [s2 EXCEPT !.log = Append(@, Event("close", 0, 0, TRUE))]
    IN  IF s1.stuck THEN s1
        ELSE IF "NETWORK" \in flags THEN SendReply(s3) ELSE s3

ServerWrite(st, ops, stream, flags, fails) ==
    LET s0 == ServerOpen([ServerStart(st) EXCEPT !.stream = stream], fails)
        s1 == ServerWriteLoop(s0, ops, 1, flags, fails)
    IN  IF s1.stuck THEN s1 ELSE ServerWriteEnd(s1, flags, fails)

(* J_MESSAGE_OBJECT_STATUS: open (result not checked), status, one reply    *)
(* operation of two words, modification time and size, per name            *)
RECURSIVE ServerStatusLoop(_, _, _, _)
ServerStatusLoop(s, i, count, fails) ==
    IF i > count THEN s
    ELSE LET o == backend_open(s.store, CallOk(s, fails))
             st == backend_status(s.store, o /\ (s.calls + 2) \notin fails)
         IN  ServerStatusLoop(
                 [s EXCEPT !.calls = @ + 2, !.failed = @ \/ ~st.ok, !.ub = @ \/ ~o,
                           !.log = @ \o <<Event("open", 0, 0, o),
                                          Event("status", 0, 0, st.ok),
                                          Event("close", 0, 0, TRUE)>>,
                           !.reply = ReplyAdd(@, <<st.mtime, st.size>>, <<>>)],
                 i + 1, count, fails)

ServerStatus(st, count, fails) ==
    SendReply(ServerStatusLoop(ServerStart(st), 1, count, fails))

----------------------------------------------------------------------------
(* The client's receive loop of a read: replies are received until the     *)
(* operation counts add up to the request's operation count.               *)

RECURSIVE ReceiveLoop(_, _, _, _)
ReceiveLoop(replies, k, operations_done, operation_count) ==
    IF operations_done >= operation_count
    THEN [operations_done |-> operations_done, received |-> k - 1, blocked |-> FALSE]
    ELSE IF k > Len(replies)
         THEN [operations_done |-> operations_done, received |-> k - 1, blocked |-> TRUE]
         ELSE ReceiveLoop(replies, k + 1, operations_done + replies[k].count, operation_count)

----------------------------------------------------------------------------
(* What the server worker did for the last request *)

(* The switch on the flags of a request: each safety flag alone is a case, *)
(* every other value takes the default (g_warn_if_reached) and leaves      *)
(* J_SEMANTICS_SAFETY_NONE                                                 *)
jd_safety_message_to_semantics(flags) ==
    CASE flags = {} -> "NONE"
      [] flags = {"STORAGE"} -> "STORAGE"
      [] flags = {"NETWORK"} -> "NETWORK"
      [] OTHER -> "NONE"

SrvIdle ==
    [phase |-> "idle", type |-> "none", flags |-> {}, safety |-> "NONE", count |-> 0,
     ops |-> <<>>, log |-> <<>>, replies |-> <<>>, failed |-> FALSE, stuck |-> FALSE,
     ub |-> FALSE]

(* safety is what the worker derives from the flags before it dispatches   *)
(* on the type of the request                                              *)
Served(type, flags, count, ops, s) ==
    [phase |-> "served", type |-> type, flags |-> flags,
     safety |-> jd_safety_message_to_semantics(flags), count |-> count, ops |-> ops,
     log |-> s.log, replies |-> s.replies, failed |-> s.failed, stuck |-> s.stuck,
     ub |-> s.ub]

(* Requests the server is fed with *)
OpSet == [length : 1..MaxLen, offset : 0..MaxOff]
OpSeqs == UNION {[1..n -> OpSet] : n \in 1..MaxOps}
FailAt == {0, 1, 2}
Fails(f) == IF f = 0 THEN {} ELSE {f}

RECURSIVE Payload(_, _, _)
Payload(ops, i, b) ==
    IF i > Len(ops) THEN <<>> ELSE Fill(ops[i].length, b) \o Payload(ops, i + 1, b)

----------------------------------------------------------------------------
(* Client-side state after construction *)

NoTransformation ==
    [type |-> "NULL", mode |-> "NULL", changes_size |-> FALSE, partial_edit |-> FALSE]

NoRecord ==
    [present |-> FALSE, type |-> "NULL", mode |-> "NULL",
     original_size |-> 0, transformed_size |-> 0]

j_transformation_object_new ==
    [transformation |-> NoTransformation, original_size |-> 0, transformed_size |-> 0]

NoResult ==
    [op |-> "none", ret |-> TRUE, bytes |-> 0, length |-> 0, offset |-> 0, data |-> <<>>,
     count |-> 0, fault |-> "none", miss |-> FALSE, lost |-> FALSE, sent |-> <<>>,
     stat |-> <<>>, ops |-> <<>>]

(* History of the run: number of reads and writes executed, largest end of *)
(* a write that returned TRUE, and whether the object is freshly created   *)
(* ("created"), has since received exactly one write at offset 0           *)
(* ("written", the buffer kept in written), or neither ("other")           *)
NoHistory ==
    [steps |-> 0, max_end |-> 0, fresh |-> "other", written |-> <<>>, fault |-> "none"]

PoolInit == [idle |-> 1, closed |-> 0, desync |-> FALSE]

----------------------------------------------------------------------------
(* Specification of the server worker alone: it serves one request drawn   *)
(* from the request sets against a store that does not exist, is empty or  *)
(* holds data.                                                             *)

ServerStores ==
    {NoObject, [exists |-> TRUE, data |-> <<>>, mtime |-> Epoch],
     [exists |-> TRUE, data |-> Fill(MaxLen, 7), mtime |-> Epoch + 1]}

InitServer ==
    /\ cfg = [local |-> FALSE, safety |-> "NONE", faults |-> FALSE,
              type |-> "NONE", mode |-> "CLIENT"]
    /\ store \in ServerStores
    /\ kv = NoRecord
    /\ object = j_transformation_object_new
    /\ res = NoResult
    /\ hist = NoHistory
    /\ pool = PoolInit
    /\ srv = SrvIdle
    /\ halt = "no"

OnCreate ==
    /\ srv.phase = "idle"
    /\ \E count \in 1..MaxOps, flags \in SUBSET SafetyFlags, f \in FailAt :
          LET s == ServerCreate(store, count, flags, Fails(f))
          IN  /\ store' = s.store
              /\ srv' = Served("create", flags, count, <<>>, s)
    /\ UNCHANGED <<cfg, kv, object, res, hist, pool, halt>>

OnDelete ==
    /\ srv.phase = "idle"
    /\ \E count \in 1..MaxOps, flags \in SUBSET SafetyFlags, f \in FailAt :
          LET s == ServerDelete(store, count, flags, Fails(f))
          IN  /\ store' = s.store
              /\ srv' = Served("delete", flags, count, <<>>, s)
    /\ UNCHANGED <<cfg, kv, object, res, hist, pool, halt>>

OnRead ==
    /\ srv.phase = "idle"
    /\ \E ops \in OpSeqs, flags \in SUBSET SafetyFlags, f \in FailAt :
          LET s == ServerRead(store, ops, Fails(f))
          IN  /\ store' = s.store
              /\ srv' = Served("read", flags, Len(ops), ops, s)
    /\ UNCHANGED <<cfg, kv, object, res, hist, pool, halt>>

(* Write requests: the server takes the length of an operation from the    *)
(* message as it is, so a length may exceed the scratch region; the bulk   *)
(* bytes of operation i are b + i - 1, so that the payloads of a request's *)
(* operations differ                                                       *)
WriteOpSet == [length : 1..(J_STRIPE_SIZE + 1), offset : 0..MaxOff]
WriteOpSeqs == UNION {[1..n -> WriteOpSet] : n \in 1..MaxOps}

RECURSIVE OpPayloads(_, _, _)
OpPayloads(ops, i, b) ==
    IF i > Len(ops) THEN <<>>
    ELSE Fill(ops[i].length, b + i - 1) \o OpPayloads(ops, i + 1, b)

OnWrite ==
    /\ srv.phase = "idle"
    /\ \E ops \in WriteOpSeqs, b \in UserBytes, flags \in SUBSET SafetyFlags, f \in FailAt :
          LET s == ServerWrite(store, ops, OpPayloads(ops, 1, b), flags, Fails(f))
          IN  /\ store' = s.store
              /\ srv' = Served("write", flags, Len(ops), ops, s)
                         @@ [before |-> store, first |-> b]
    /\ UNCHANGED <<cfg, kv, object, res, hist, pool, halt>>

OnStatus ==
    /\ srv.phase = "idle"
    /\ \E count \in 1..MaxOps, flags \in SUBSET SafetyFlags, f \in FailAt :
          srv' = Served("status", flags, count, <<>>, ServerStatus(store, count, Fails(f)))
    /\ UNCHANGED <<cfg, store, kv, object, res, hist, pool, halt>>

NextServer == OnCreate \/ OnDelete \/ OnRead \/ OnWrite \/ OnStatus

SpecServer == InitServer /\ [][NextServer]_vars

----------------------------------------------------------------------------
(* Properties of the server worker (SpecServer) *)

Positions(log, ev) == {i \in 1..Len(log) : log[i].ev = ev}

RECURSIVE CountSum(_)
CountSum(replies) ==
    IF replies = <<>> THEN 0 ELSE Head(replies).count + CountSum(Tail(replies))

(* C2: every create, delete or write request whose flags carry any safety  *)
(* bit (STORAGE, NETWORK or both) is answered with a reply message.        *)
C2_ReplyOnAnySafetyBit ==
    (srv.phase = "served" /\ srv.type \in {"create", "delete", "write"}
       /\ srv.flags # {} /\ ~srv.stuck)
    => Len(srv.replies) >= 1

(* C4: for a read request of N >= 1 operations the operation counts of the *)
(* replies the server sends sum to N, and the client's receive loop ends   *)
(* with operations_done = N after receiving all of them.                   *)
C4_ReadReplyCountsSumToN ==
    (srv.phase = "served" /\ srv.type = "read")
    => LET N == srv.count
           loop == ReceiveLoop(srv.replies, 1, 0, N)
       IN  /\ N >= 1
           /\ CountSum(srv.replies) = N
           /\ ~loop.blocked
           /\ loop.operations_done = N
           /\ loop.received = Len(srv.replies)

(* C4 witness: two reads that do not fit the scratch region together are   *)
(* answered with two replies of one operation each.                        *)
C4_Witness_SplitReplies ==
    /\ srv.phase = "served" /\ srv.type = "read" /\ srv.count = 2
    /\ srv.ops[1].length + srv.ops[2].length > J_STRIPE_SIZE
    /\ Len(srv.replies) = 2
    /\ srv.replies[1].count = 1 /\ srv.replies[2].count = 1
    /\ ReceiveLoop(srv.replies, 1, 0, 2).operations_done = 2

(* C10: a write request with the STORAGE bit is synced exactly once, after *)
(* every backend write of the request (the tail flush included) and before *)
(* any reply is sent.                                                      *)
C10_SyncAfterWritesBeforeReply ==
    (srv.phase = "served" /\ srv.type = "write" /\ "STORAGE" \in srv.flags /\ ~srv.stuck)
    => /\ Cardinality(Positions(srv.log, "sync")) = 1
       /\ \A y \in Positions(srv.log, "sync") :
             /\ \A w \in Positions(srv.log, "write") : w < y
             /\ \A r \in Positions(srv.log, "reply") : y < r

(* C10 witness: a STORAGE write of two operations that are not merged: a   *)
(* flush in the loop, the tail flush, then the sync, then the reply.       *)
C10_Witness_TwoFlushesSyncReply ==
    /\ srv.phase = "served" /\ srv.type = "write"
    /\ srv.flags = {"NETWORK", "STORAGE"}
    /\ Cardinality(Positions(srv.log, "write")) = 2
    /\ Cardinality(Positions(srv.log, "sync")) = 1
    /\ Cardinality(Positions(srv.log, "reply")) = 1
    /\ Len(srv.replies) = 1 /\ srv.replies[1].count = 2

----------------------------------------------------------------------------
(* Specification of the codec alone: a transformation is created for each  *)
(* type and mode and j_transformation_apply is called on it once, by each  *)
(* caller, on each input, the way the partial branches call it: in place,  *)
(* with the length of the input.                                           *)

CodecBytes == {0, 5}
CodecInputs == UNION {[1..n -> CodecBytes] : n \in 1..MaxLen}

InitCodec ==
    /\ cfg \in [local : {TRUE}, safety : {"NONE"}, faults : {FALSE},
                type : Types, mode : Modes]
    /\ store = NoObject
    /\ kv = NoRecord
    /\ object = j_transformation_object_new
    /\ res = NoResult
    /\ hist = NoHistory
    /\ pool = PoolInit
    /\ srv = SrvIdle
    /\ halt = "no"

(* j_transformation_new(type, mode, NULL) *)
TransformationNew ==
    /\ object.transformation = NoTransformation
    /\ object' = [object EXCEPT !.transformation = j_transformation_new(cfg.type, cfg.mode)]
    /\ UNCHANGED <<cfg, store, kv, res, hist, pool, srv, halt>>

(* What one call of j_transformation_apply was given and what it left *)
Applied(trafo, caller, input, junk, out) ==
    [op |-> "apply", trafo |-> trafo, caller |-> caller, input |-> input, junk |-> junk,
     output |-> out.output, outlength |-> out.outlength, outoffset |-> out.outoffset]

(* j_transformation_apply(trafo, data, length, 0, &data, &length, &offset, caller) *)
Apply ==
    /\ object.transformation # NoTransformation
    /\ res.op = "none"
    /\ \E caller \in Callers, input \in CodecInputs, junk \in JunkBytes :
          res' = Applied(object.transformation, caller, input, junk,
                         j_transformation_apply(object.transformation, input, Len(input), 0,
                                                input, FALSE, Len(input), 0, caller, junk))
    /\ UNCHANGED <<cfg, store, kv, object, hist, pool, srv, halt>>

NextCodec == TransformationNew \/ Apply

SpecCodec == InitCodec /\ [][NextCodec]_vars

----------------------------------------------------------------------------
(* Properties of the codec (SpecCodec) *)

(* The policy table: the direction for each mode and caller *)
PolicyTable(mode, caller) ==
    CASE mode = "CLIENT" ->
            (CASE caller = "CLIENT_READ" -> "inverse"
               [] caller = "CLIENT_WRITE" -> "forward"
               [] OTHER -> "none")
      [] mode = "TRANSPORT" ->
            (CASE caller \in {"CLIENT_READ", "SERVER_WRITE"} -> "inverse"
               [] OTHER -> "forward")
      [] OTHER ->
            (CASE caller = "SERVER_READ" -> "inverse"
               [] caller = "SERVER_WRITE" -> "forward"
               [] OTHER -> "none")

(* What a call leaves when the codec of the type runs in direction want *)
Expected(want, type, caller, input, junk) ==
    LET b == IF type = "XOR" THEN j_transformation_apply_xor(input, Len(input), 0, junk)
             ELSE IF want = "inverse"
                  THEN j_transformation_apply_rle_inverse(input, Len(input), 0, junk)
                  ELSE j_transformation_apply_rle(input, Len(input), 0, junk)
    IN  IF want = "none" \/ type \notin {"XOR", "RLE"}
        THEN [output |-> input, outlength |-> Len(input), outoffset |-> 0]
        ELSE IF caller \in {"CLIENT_READ", "SERVER_READ"}
             THEN [output |-> [i \in 1..Len(input) |-> At(b.data, i, junk)],
                   outlength |-> Len(input), outoffset |-> 0]
             ELSE [output |-> b.data, outlength |-> b.length, outoffset |-> b.offset]

(* C12: for each of the 12 (mode, caller) pairs j_transformation_apply     *)
(* runs the codec in the direction of the policy table: CLIENT inverse for *)
(* CLIENT_READ, forward for CLIENT_WRITE, nothing for the server callers;  *)
(* TRANSPORT inverse for CLIENT_READ and SERVER_WRITE, forward for         *)
(* CLIENT_WRITE and SERVER_READ; SERVER nothing for the client callers,    *)
(* inverse for SERVER_READ, forward for SERVER_WRITE                       *)
C12_DirectionPolicy ==
    res.op = "apply"
    => LET e == Expected(PolicyTable(res.trafo.mode, res.caller), res.trafo.type,
                         res.caller, res.input, res.junk)
       IN  /\ res.output = e.output
           /\ res.outlength = e.outlength
           /\ res.outoffset = e.outoffset

(* C12 witness: the server reading a TRANSPORT object encodes: the run     *)
(* <<5, 5>> leaves the pair (1, 5) in the caller's buffer                  *)
C12_Witness_TransportServerReadEncodes ==
    /\ res.op = "apply" /\ res.trafo.type = "RLE" /\ res.trafo.mode = "TRANSPORT"
    /\ res.caller = "SERVER_READ" /\ res.input = <<5, 5>>
    /\ res.output = <<1, 5>>

(* C13: a transformation of type NONE or XOR has partial access, one of    *)
(* type RLE or LZ4 has not, so need_whole_object is true for CLIENT_READ   *)
(* and CLIENT_WRITE exactly when the type is RLE or LZ4                    *)
C13_PartialAccessByType ==
    object.transformation # NoTransformation
    => /\ object.transformation.partial_edit <=> object.transformation.type \in {"NONE", "XOR"}
       /\ \A caller \in {"CLIENT_READ", "CLIENT_WRITE"} :
             j_transformation_need_whole_object(object.transformation, caller)
             <=> object.transformation.type \in {"RLE", "LZ4"}

----------------------------------------------------------------------------
(* Client: pieces shared by the exec functions.  An exec function works on *)
(* a record c of the state it reads and changes.                           *)

Safeties == {"NONE", "NETWORK", "STORAGE"}

(* Faults a run may be subjected to *)
FaultKinds == {"call1", "call2", "kv", "send", "receive"}

(* j_message_set_semantics: the safety bits of a request *)
j_message_set_semantics(safety) ==
    CASE safety = "NETWORK" -> {"NETWORK"}
      [] safety = "STORAGE" -> {"NETWORK", "STORAGE"}
      [] OTHER -> {}

(* Which backend call of the run fails *)
BackendFails(fault) ==
    CASE fault = "call1" -> {1} [] fault = "call2" -> {2} [] OTHER -> {}

(* The state one exec call works on.  Besides the program's state it      *)
(* keeps what the call went through: miss, a backend call or KV batch of  *)
(* the call returned FALSE, lost, a send or receive of the call failed,   *)
(* and sent, the request messages that went out on the connection.        *)
Ctx ==
    [store |-> store, kv |-> kv, object |-> object, pool |-> pool, srv |-> SrvIdle,
     ret |-> TRUE, miss |-> FALSE, lost |-> FALSE,
     bytes |-> 0, data |-> <<>>, calls |-> 0, opened |-> FALSE,
     msg |-> [count |-> 0, words |-> <<>>, payload |-> <<>>, null |-> FALSE],
     sent |-> <<>>, stat |-> <<>>, halt |-> "no"]

(* pop(kind, i): the pool holds one connection per server; a pop while it  *)
(* is leased waits for a push that the waiting batch itself would have to *)
(* make                                                                    *)
j_connection_pool_pop(c) ==
    IF c.pool.idle = 0 THEN [c EXCEPT !.halt = "starved"]
    ELSE [c EXCEPT !.pool.idle = @ - 1]

j_connection_pool_push(c) == [c EXCEPT !.pool.idle = @ + 1]

(* j_kv_put of the handle's metadata and j_batch_execute of the KV batch *)
kv_put_metadata(c, ok) ==
    IF ok
    THEN [c EXCEPT !.kv = [present |-> TRUE,
                           type |-> c.object.transformation.type,
                           mode |-> c.object.transformation.mode,
                           original_size |-> c.object.original_size,
                           transformed_size |-> c.object.transformed_size]]
    ELSE [c EXCEPT !.miss = TRUE]

(* j_kv_delete and j_batch_execute of the KV batch *)
kv_delete_metadata(c, ok) ==
    IF ok /\ c.kv.present THEN [c EXCEPT !.kv = NoRecord] ELSE c

kv_delete_result(c, ok) == ok /\ c.kv.present

j_transformation_object_load_transformation(c) ==
    IF c.kv.present
    THEN [c EXCEPT !.object = [transformation |-> j_transformation_new(c.kv.type, c.kv.mode),
                               original_size |-> c.kv.original_size,
                               transformed_size |-> c.kv.transformed_size]]
    ELSE c

j_transformation_object_load_object_size(c) ==
    IF c.kv.present
    THEN [c EXCEPT !.object.original_size = c.kv.original_size,
                   !.object.transformed_size = c.kv.transformed_size]
    ELSE c

j_transformation_object_update_stored_metadata(c, ok) == kv_put_metadata(c, ok)

(* The request reaches the server unless sending fails; the server's       *)
(* handler result s is taken over                                          *)
Deliver(c, type, flags, count, ops, s) ==
    [c EXCEPT !.store = s.store, !.srv = Served(type, flags, count, ops, s),
              !.sent = Append(@, [type |-> type, count |-> count, words |-> c.msg.words])]

----------------------------------------------------------------------------
(* j_transformation_object_create_exec for a run of count creates *)

RECURSIVE CreateLoop(_, _, _, _, _)
CreateLoop(c, i, count, local, fault) ==
    IF i > count THEN c
    ELSE LET cr == backend_create(c.store, (c.calls + 1) \notin BackendFails(fault))
             c1 == IF local
                   THEN [c EXCEPT !.store = cr.store, !.calls = @ + 1,
                                  !.ret = cr.ok /\ c.ret, !.miss = @ \/ ~cr.ok]
                   ELSE c
             kvok == fault # "kv"
             c2 == [kv_put_metadata(c1, kvok) EXCEPT !.ret = kvok]
         IN  CreateLoop(c2, i + 1, count, local, fault)

(* send, reply and push: lines 339-360 *)
CreateExchange(c, count, flags, safety, fault) ==
    IF fault = "send" THEN [c EXCEPT !.lost = TRUE]
    ELSE [Deliver(c, "create", flags, count, <<>>,
                  ServerCreate(c.store, count, flags, BackendFails(fault)))
            EXCEPT !.lost = (fault = "receive" /\ safety # "NONE")]

(* send, reply and push on the connection c1 was given by the pool *)
CreateLeased(c1, count, flags, safety, fault) ==
    IF c1.halt # "no" THEN c1
    ELSE j_connection_pool_push(CreateExchange(c1, count, flags, safety, fault))

j_transformation_object_create_exec(c, count, local, safety, fault) ==
    IF local THEN CreateLoop(c, 1, count, local, fault)
    ELSE CreateLeased(j_connection_pool_pop(CreateLoop(c, 1, count, local, fault)),
                      count, j_message_set_semantics(safety), safety, fault)

(* j_transformation_object_delete_exec for a run of count deletes *)

RECURSIVE DeleteLoop(_, _, _, _, _)
DeleteLoop(c, i, count, local, fault) ==
    IF i > count THEN c
    ELSE LET kvok == fault # "kv"
             c1 == [kv_delete_metadata(c, kvok) EXCEPT !.ret = kv_delete_result(c, kvok),
                                                    !.miss = @ \/ ~kv_delete_result(c, kvok)]
             o == backend_open(c1.store, (c1.calls + 1) \notin BackendFails(fault))
             d == IF o THEN backend_delete(c1.store, (c1.calls + 2) \notin BackendFails(fault))
                  ELSE [ok |-> FALSE, store |-> c1.store]
             c2 == IF local
                   THEN [c1 EXCEPT !.store = d.store, !.calls = @ + 2,
                                   !.ret = d.ok /\ (o /\ c1.ret),
                                   !.miss = @ \/ ~(o /\ d.ok)]
                   ELSE c1
         IN  DeleteLoop(c2, i + 1, count, local, fault)

(* send, reply and push: lines 432-453 *)
DeleteExchange(c, count, flags, safety, fault) ==
    IF fault = "send" THEN [c EXCEPT !.lost = TRUE]
    ELSE [Deliver(c, "delete", flags, count, <<>>,
                  ServerDelete(c.store, count, flags, BackendFails(fault)))
            EXCEPT !.lost = (fault = "receive" /\ safety # "NONE")]

(* send, reply and push on the connection c1 was given by the pool *)
DeleteLeased(c1, count, flags, safety, fault) ==
    IF c1.halt # "no" THEN c1
    ELSE j_connection_pool_push(DeleteExchange(c1, count, flags, safety, fault))

j_transformation_object_delete_exec(c, count, local, safety, fault) ==
    IF local THEN DeleteLoop(c, 1, count, local, fault)
    ELSE DeleteLeased(j_connection_pool_pop(DeleteLoop(c, 1, count, local, fault)),
                      count, j_message_set_semantics(safety), safety, fault)

----------------------------------------------------------------------------
(* j_transformation_object_status_exec for a run of count status           *)
(* operations of j_transformation_object_status_ext on the handle          *)

(* The application's four variables before the call *)
Unset == [mtime |-> 0, original_size |-> 0, transformed_size |-> 0, type |-> "NULL"]

(* Client-side backend, lines 1447-1454: open, status into the user's      *)
(* modification_time and original_size, close                              *)
StatusLocalOp(c, fault) ==
    LET o == backend_open(c.store, (c.calls + 1) \notin BackendFails(fault))
        st == backend_status(c.store, o /\ (c.calls + 2) \notin BackendFails(fault))
    IN  [c EXCEPT !.calls = @ + 2, !.ret = st.ok /\ (o /\ c.ret),
                  !.miss = @ \/ ~o \/ ~st.ok,
                  !.stat = Append(@, IF st.ok
                                     THEN [Unset EXCEPT !.mtime = st.mtime,
                                                        !.original_size = st.size]
                                     ELSE Unset)]

RECURSIVE StatusLocalLoop(_, _, _, _)
StatusLocalLoop(c, j, count, fault) ==
    IF j > count THEN c
    ELSE StatusLocalLoop(StatusLocalOp(c, fault), j + 1, count, fault)

(* One operation of the reply loop, lines 1483-1513: c is the state after  *)
(* j_transformation_object_load_transformation, word what j_message_get_8  *)
(* returned                                                                *)
StatusReplyOp(c, word) ==
    IF c.object.transformation = NoTransformation
    THEN [c EXCEPT !.halt = "crashed"]
    ELSE [c EXCEPT !.stat = Append(@, [mtime |-> word,
                                       original_size |-> c.object.original_size,
                                       transformed_size |-> c.object.transformed_size,
                                       type |-> c.object.transformation.type])]

RECURSIVE StatusReplies(_, _, _, _, _)
StatusReplies(c, words, j, count, u) ==
    IF j > count \/ c.halt # "no" THEN c
    ELSE StatusReplies(StatusReplyOp(j_transformation_object_load_transformation(c),
                                     At(words, j, u.junk)),
                       words, j + 1, count, u)

(* j_message_send of the request: the server handles it unless the send fails *)
StatusDeliver(c, count, flags, s, fault) ==
    IF fault = "send" THEN [c EXCEPT !.lost = TRUE]
    ELSE [Deliver(c, "status", flags, count, <<>>, s) EXCEPT !.lost = (fault = "receive")]

StatusPush(c) == IF c.halt # "no" THEN c ELSE j_connection_pool_push(c)

(* send, receive, reply loop and push: lines 1468-1519 *)
StatusLeased(c1, count, flags, s, fault, u) ==
    IF c1.halt # "no" THEN c1
    ELSE StatusPush(StatusReplies(StatusDeliver(c1, count, flags, s, fault),
                                  IF fault \in {"send", "receive"} THEN <<>>
                                  ELSE s.replies[1].words,
                                  1, count, u))

StatusExchange(c, count, flags, s, fault, u) ==
    StatusLeased(j_connection_pool_pop(c), count, flags, s, fault, u)

j_transformation_object_status_exec(c, count, local, safety, fault, u) ==
    IF local THEN StatusLocalLoop(c, 1, count, fault)
    ELSE StatusExchange(c, count, j_message_set_semantics(safety),
                        ServerStatus(c.store, count, BackendFails(fault)), fault, u)

----------------------------------------------------------------------------
(* Operations of a read or write call and the request message *)

(* j_configuration_get_max_operation_size: the bound of the model unless   *)
(* the configuration of the run sets it                                    *)
max_operation_size ==
    IF "max_operation_size" \in DOMAIN cfg THEN cfg.max_operation_size ELSE MaxOpSize

(* j_transformation_object_read / _write: the call is cut into operations  *)
(* of at most max_operation_size bytes; pos is where the operation's data  *)
(* pointer points into the user's buffer                                   *)
(* The same loop without "offset += chunk_size" *)
RECURSIVE ChunksOffsetKept(_, _, _)
ChunksOffsetKept(length, offset, pos) ==
    IF length = 0 THEN <<>>
    ELSE LET chunk_size == Min(length, MaxOpSize)
         IN  <<[pos |-> pos, length |-> chunk_size, offset |-> offset]>>
             \o ChunksOffsetKept(length - chunk_size, offset, pos + chunk_size)

RECURSIVE Chunks(_, _, _)
Chunks(length, offset, pos) ==
    IF length = 0 THEN <<>>
    ELSE LET chunk_size == Min(length, max_operation_size)
         IN  <<[pos |-> pos, length |-> chunk_size, offset |-> offset]>>
             \o Chunks(length - chunk_size, offset + chunk_size, pos + chunk_size)

(* The memory an operation's data pointer points to *)
Mem(buf, pos) == SubSeq(buf, pos + 1, Len(buf))

(* buf with its bytes from position pos + 1 on replaced by the first n of bytes *)
Store(buf, pos, bytes, n) ==
    [i \in 1..Len(buf) |-> IF i > pos /\ i <= pos + n /\ i - pos <= Len(bytes)
                           THEN bytes[i - pos] ELSE buf[i]]

TypeCode(type) ==
    CASE type = "NONE" -> 0 [] type = "XOR" -> 1 [] type = "RLE" -> 2 [] OTHER -> 3

ModeCode(mode) ==
    CASE mode = "CLIENT" -> 0 [] mode = "TRANSPORT" -> 1 [] OTHER -> 2

(* The operation record the client appends: length, offset, the            *)
(* JTransformation struct (two words) and the two sizes                    *)
OpWords(length, offset, trafo, original_size, transformed_size) ==
    <<length, offset,
      TypeCode(trafo.type) + ModeCode(trafo.mode) * WordBase,
      (IF trafo.partial_edit THEN 1 ELSE 0) + WordBase,
      original_size, transformed_size>>

(* j_message_add_operation, the appends and j_message_add_send *)
AddOp(c, words, payload, null) ==
    [c EXCEPT !.msg = [count |-> @.count + 1, words |-> @.words \o words,
                       payload |-> @.payload \o payload, null |-> @.null \/ null]]

(* The server reads length and offset of each operation with two           *)
(* j_message_get_8 from where the previous operation's two words ended     *)
ParseOps(words, count, junk) ==
    [i \in 1..count |-> [length |-> At(words, 2 * i - 1, junk),
                         offset |-> At(words, 2 * i, junk)]]

----------------------------------------------------------------------------
(* j_transformation_object_read_exec.  u says what undefined behaviour     *)
(* amounts to in this run: the byte an invalid read yields (u.junk) and    *)
(* whether an invalid access stops the process (u.crash).                  *)

UBs ==
    {[junk |-> j, crash |-> FALSE] : j \in JunkBytes} \cup {[junk |-> 0, crash |-> TRUE]}

(* Start of read_exec and write_exec: the transformation is loaded from    *)
(* the KV record if the handle has none; g_assert(transformation != NULL)  *)
ExecStart(c) ==
    LET c1 == IF c.object.transformation = NoTransformation
              THEN j_transformation_object_load_transformation(c) ELSE c
    IN  IF c1.object.transformation = NoTransformation
        THEN [c1 EXCEPT !.halt = "crashed"] ELSE c1

(* j_backend_object_open of the client-side backend *)
ClientOpen(c, fault) ==
    LET o == backend_open(c.store, (c.calls + 1) \notin BackendFails(fault))
    IN  [c EXCEPT !.opened = o, !.calls = @ + 1, !.ret = o /\ c.ret, !.miss = @ \/ ~o]

(* The branch of read_exec and write_exec: lines 606, 753, 858 *)
Branch(trafo, caller) ==
    IF trafo.mode = "CLIENT"
    THEN IF j_transformation_need_whole_object(trafo, caller) THEN "whole" ELSE "partial"
    ELSE IF trafo.mode = "SERVER" THEN "server" ELSE "none"

(* buf with its bytes from position pos + 1 on replaced by bytes *)
StoreAll(buf, pos, bytes) == Store(buf, pos, bytes, Len(bytes))

(* A backend read is accounted for: ret, bytes_read, the user's buffer *)
ReadCounted(c, op, r) ==
    [c EXCEPT !.calls = @ + 1, !.ret = r.ok /\ c.ret, !.miss = @ \/ ~r.ok,
              !.bytes = @ + r.nbytes, !.data = Store(@, op.pos, r.data, r.nbytes)]

(* A backend write is accounted for: ret and bytes_written *)
WriteCounted(c, w) ==
    [c EXCEPT !.store = w.store, !.calls = @ + 1, !.ret = w.ok /\ c.ret,
              !.miss = @ \/ ~w.ok, !.bytes = @ + w.nbytes]

(* memcpy(operation->read.data, whole_data_buf + offset, length) after     *)
(* apply was handed whole_data_buf                                         *)
CopyOut(c, op, a, u) ==
    IF a.null
    THEN IF u.crash THEN [c EXCEPT !.halt = "crashed"]
         ELSE [c EXCEPT !.data = Store(@, op.pos, Fill(op.length, u.junk), op.length)]
    ELSE [c EXCEPT !.data = Store(@, op.pos,
                                  [i \in 1..op.length |-> At(a.output, op.offset + i, u.junk)],
                                  op.length)]

(* Whole-object read, client-side backend: lines 616-649 *)
ReadWholeLocalOp(c, op, fault, u) ==
    LET c0 == j_transformation_object_load_object_size(c)
        tlen == c0.object.transformed_size
        r == backend_read(c0.store, tlen, 0,
                          c0.opened /\ (c0.calls + 1) \notin BackendFails(fault))
        c1 == [c0 EXCEPT !.calls = @ + 1, !.ret = r.ok /\ c0.ret, !.miss = @ \/ ~r.ok,
                         !.bytes = @ + op.length]
    IN  CopyOut(c1, op,
                j_transformation_apply(c0.object.transformation,
                                       [i \in 1..tlen |-> At(r.data, i, u.junk)], tlen, 0,
                                       <<>>, TRUE, tlen, 0, "CLIENT_READ", u.junk),
                u)

(* Partial read, client-side backend: lines 765-774 *)
ReadPartialLocalOp(c, op, fault, u) ==
    LET r == backend_read(c.store, op.length, op.offset,
                          c.opened /\ (c.calls + 1) \notin BackendFails(fault))
        buf == Store(c.data, op.pos, r.data, r.nbytes)
    IN  [c EXCEPT !.calls = @ + 1, !.ret = r.ok /\ c.ret, !.miss = @ \/ ~r.ok,
                  !.bytes = @ + r.nbytes,
                  !.data = StoreAll(buf, op.pos,
                               j_transformation_apply(
                                   c.object.transformation, Mem(buf, op.pos), op.length,
                                   op.offset, Mem(buf, op.pos), FALSE, op.length,
                                   op.offset, "CLIENT_READ", u.junk).output)]

(* The stored object, decoded by the backend *)
Decoded(st, trafo, ok, junk) ==
    apply_type(trafo, TRUE, backend_read(st, Len(st.data), 0, ok).data,
               backend_read(st, Len(st.data), 0, ok).nbytes, 0, junk).data

(* The range [offset, offset + length) of the decoded object *)
Window(dec, length, offset) ==
    LET n == IF offset >= Len(dec) THEN 0 ELSE Min(length, Len(dec) - offset)
    IN  [ok |-> TRUE, nbytes |-> n, data |-> [i \in 1..n |-> dec[offset + i]]]

(* j_backend_transformation_object_read: the backend reads and decodes.    *)
(* A size-changing codec is decoded as a whole and the range cut out.      *)
backend_transformation_object_read(st, trafo, length, offset, ok, junk) ==
    LET r == backend_read(st, length, offset, ok)
    IN  IF ~r.ok THEN r
        ELSE IF trafo.type = "XOR"
             THEN [ok |-> TRUE, nbytes |-> r.nbytes,
                   data |-> apply_type(trafo, TRUE, r.data, r.nbytes, 0, junk).data]
        ELSE IF trafo.type = "RLE"
             THEN Window(Decoded(st, trafo, ok, junk), length, offset)
             ELSE r

(* The decoded object with data written over [offset, offset + length) *)
Overlay(dec, data, length, offset) ==
    [i \in 1..Max(Len(dec), offset + length) |->
        IF i > offset /\ i <= offset + length THEN data[i - offset]
        ELSE IF i <= Len(dec) THEN dec[i] ELSE 0]

(* What j_backend_transformation_object_write reports after its write w *)
WriteResult(w, st, length, original_size, new_original, new_transformed) ==
    IF w.ok
    THEN [ok |-> TRUE, nbytes |-> length, store |-> w.store,
          original_size |-> new_original, transformed_size |-> new_transformed]
    ELSE [ok |-> FALSE, nbytes |-> 0, store |-> st,
          original_size |-> original_size, transformed_size |-> original_size]

WriteEncoded(st, enc, length, original_size, whole_length, ok) ==
    WriteResult(backend_write([st EXCEPT !.data = <<>>], enc.data, enc.length, 0, ok),
                st, length, original_size, whole_length, enc.length)

WriteWholeEncoded(st, trafo, whole, length, original_size, ok, junk) ==
    WriteEncoded(st, apply_type(trafo, FALSE, whole, Len(whole), 0, junk),
                 length, original_size, Len(whole), ok)

(* j_backend_transformation_object_write: the backend encodes and writes   *)
(* and reports the new sizes                                               *)
backend_transformation_object_write(st, trafo, data, length, offset, original_size, ok, junk) ==
    LET new_size == Max(original_size, offset + length)
    IN  CASE trafo.type = "XOR" ->
               WriteResult(backend_write(st, apply_type(trafo, FALSE, data, length, 0,
                                                        junk).data,
                                         length, offset, ok),
                           st, length, original_size, new_size, new_size)
          [] trafo.type = "RLE" ->
               WriteWholeEncoded(st, trafo,
                                 Overlay(Decoded(st, trafo, ok, junk), data, length, offset),
                                 length, original_size, ok, junk)
          [] OTHER ->
               WriteResult(backend_write(st, data, length, offset, ok),
                           st, length, original_size, new_size, new_size)

(* SERVER mode read, client-side backend: lines 870-876 *)
ReadServerLocalOp(c, op, fault, u) ==
    ReadCounted(c, op,
                backend_transformation_object_read(
                    c.store, c.object.transformation, op.length, op.offset,
                    c.opened /\ (c.calls + 1) \notin BackendFails(fault), u.junk))

(* The operation a read appends to the request: lines 653-659, 777-783, 879-885 *)
ReadRemoteOp(c, op, kind) ==
    LET c0 == IF kind = "whole" THEN j_transformation_object_load_object_size(c) ELSE c
        o == c0.object
    IN  IF kind = "whole"
        THEN AddOp(c0, OpWords(o.transformed_size, 0, o.transformation,
                               o.original_size, o.transformed_size), <<>>, FALSE)
        ELSE AddOp(c0, OpWords(op.length, op.offset, o.transformation,
                               o.original_size, o.transformed_size), <<>>, FALSE)

(* One reply operation of the receive loop, whole-object branch: 703-740 *)
ReadReplyWhole(c0, op, nbytes, bulk, u) ==
    LET tlen == c0.object.transformed_size
    IN  IF nbytes > 0
        THEN IF nbytes > tlen /\ u.crash THEN [c0 EXCEPT !.halt = "crashed"]
             ELSE CopyOut([c0 EXCEPT !.bytes = @ + op.length], op,
                          j_transformation_apply(
                              c0.object.transformation,
                              [i \in 1..tlen |-> At(bulk, i, u.junk)], tlen, 0,
                              <<>>, TRUE, c0.object.original_size, 0,
                              "CLIENT_READ", u.junk),
                          u)
        ELSE c0

(* One reply operation of the receive loop, partial branch: 827-847 *)
ReadReplyPartial(c, op, nbytes, bulk, u) ==
    LET buf == Store(c.data, op.pos, bulk, nbytes)
        c1 == [c EXCEPT !.bytes = @ + nbytes]
    IN  IF nbytes > 0
        THEN IF nbytes > Len(Mem(buf, op.pos)) /\ u.crash
             THEN [c1 EXCEPT !.halt = "crashed"]
             ELSE [c1 EXCEPT !.data =
                       StoreAll(buf, op.pos,
                           j_transformation_apply(
                               c.object.transformation, Mem(buf, op.pos), op.length,
                               op.offset, Mem(buf, op.pos), FALSE, op.length, op.offset,
                               "CLIENT_READ", u.junk).output)]
        ELSE c1

(* One reply operation of the receive loop, SERVER mode: 929-944 *)
ReadReplyServer(c, op, nbytes, bulk, u) ==
    LET c1 == [c EXCEPT !.bytes = @ + nbytes]
    IN  IF nbytes > 0
        THEN IF nbytes > Len(Mem(c.data, op.pos)) /\ u.crash
             THEN [c1 EXCEPT !.halt = "crashed"]
             ELSE [c1 EXCEPT !.data = Store(@, op.pos, bulk, nbytes)]
        ELSE c1

ReadReplyOp(c, op, kind, nbytes, bulk, u) ==
    CASE kind = "whole" ->
           ReadReplyWhole(j_transformation_object_load_object_size(c), op, nbytes, bulk, u)
      [] kind = "partial" -> ReadReplyPartial(c, op, nbytes, bulk, u)
      [] OTHER -> ReadReplyServer(c, op, nbytes, bulk, u)

(* The receive loop: reply k, its operation i, the client's operation j *)
RECURSIVE ReadReplies(_, _, _, _, _, _, _, _, _)
ReadReplies(c, replies, k, i, j, operations_done, ops, kind, u) ==
    IF c.halt # "no" \/ operations_done >= Len(ops) THEN c
    ELSE IF k > Len(replies) THEN [c EXCEPT !.halt = "blocked"]
    ELSE IF i > replies[k].count \/ j > Len(ops)
         THEN ReadReplies(c, replies, k + 1, 1, j, operations_done + replies[k].count,
                          ops, kind, u)
         ELSE ReadReplies(ReadReplyOp(c, ops[j], kind, At(replies[k].words, i, u.junk),
                                      At(replies[k].bulk, i, <<>>), u),
                          replies, k, i + 1, j + 1, operations_done, ops, kind, u)

(* j_message_send of a read request: the server handles it unless the send fails *)
ReadDeliver(c, sops, s, flags, fault) ==
    IF fault = "send" THEN [c EXCEPT !.lost = TRUE]
    ELSE [Deliver(c, "read", flags, c.msg.count, sops, s)
            EXCEPT !.lost = @ \/ fault = "receive"]

(* j_connection_pool_push once the receive loop is through *)
ReadPush(c) == IF c.halt # "no" THEN c ELSE j_connection_pool_push(c)

ReadServed(c, sops, s, ops, kind, flags, fault, u) ==
    ReadPush(ReadReplies(ReadDeliver(c, sops, s, flags, fault),
                         IF fault \in {"send", "receive"} THEN <<>> ELSE s.replies,
                         1, 1, 1, 0, ops, kind, u))

(* send, receive loop and push: lines 673-749, 797-856, 899-953 *)
ReadExchange(c, ops, kind, safety, fault, u) ==
    LET c1 == j_connection_pool_pop(c)
        sops == ParseOps(c1.msg.words, c1.msg.count, u.junk)
    IN  IF c1.halt # "no" THEN c1
        ELSE ReadServed(c1, sops, ServerRead(c1.store, sops, BackendFails(fault)),
                        ops, kind, j_message_set_semantics(safety), fault, u)

RECURSIVE ReadLoop(_, _, _, _, _, _, _)
ReadLoop(c, ops, j, kind, local, fault, u) ==
    IF j > Len(ops) \/ c.halt # "no" THEN c
    ELSE ReadLoop(IF ~local THEN ReadRemoteOp(c, ops[j], kind)
                  ELSE CASE kind = "whole" -> ReadWholeLocalOp(c, ops[j], fault, u)
                         [] kind = "partial" -> ReadPartialLocalOp(c, ops[j], fault, u)
                         [] OTHER -> ReadServerLocalOp(c, ops[j], fault, u),
                  ops, j + 1, kind, local, fault, u)

(* After the loop over the operations: close, or send and receive *)
ReadEnd(c, ops, kind, local, safety, fault, u) ==
    IF kind = "none" \/ c.halt # "no" \/ local THEN c
    ELSE ReadExchange(c, ops, kind, safety, fault, u)

(* read_exec once the transformation is known and the object is open *)
ReadBranch(c, ops, kind, local, safety, fault, u) ==
    ReadEnd(ReadLoop(c, ops, 1, kind, local, fault, u), ops, kind, local, safety, fault, u)

j_transformation_object_read_exec(c, ops, local, safety, fault, u) ==
    LET c0 == ExecStart(c)
        c1 == IF local THEN ClientOpen(c0, fault) ELSE c0
    IN  IF c0.halt # "no" THEN c0
        ELSE ReadBranch(c1, ops, Branch(c1.object.transformation, "CLIENT_READ"),
                        local, safety, fault, u)

----------------------------------------------------------------------------
(* j_transformation_object_write_exec *)

(* The op's user bytes *)
UserData(c, op, junk) == [i \in 1..op.length |-> At(c.data, op.pos + i, junk)]

(* Whole-object write, lines 1105-1137: the buffer apply left in           *)
(* transformed_data is written or appended to the request                  *)
WriteWholeStored(c, op, new_size, a, local, safety, fault, u) ==
    IF (op.offset + op.length > new_size \/ (a.null /\ local)) /\ u.crash
    THEN [c EXCEPT !.halt = "crashed"]
    ELSE IF local
         THEN WriteCounted(c, backend_write(c.store, a.output, a.outlength, a.outoffset,
                                            ~a.null /\ c.opened
                                            /\ (c.calls + 1) \notin BackendFails(fault)))
         ELSE [AddOp(c, OpWords(a.outlength, a.outoffset, c.object.transformation,
                                c.object.original_size, c.object.transformed_size),
                     IF a.null THEN <<>> ELSE a.output, a.null)
                 EXCEPT !.bytes = IF safety = "NONE" THEN @ + a.outlength ELSE @]

(* Whole-object write, lines 1081-1109: the sizes after apply *)
WriteWholeApplied(c, op, new_size, a, local, safety, fault, u) ==
    WriteWholeStored(j_transformation_object_update_stored_metadata(
                         [c EXCEPT !.object.original_size = new_size,
                                   !.object.transformed_size = a.outlength],
                         fault # "kv"),
                     op, new_size, a, local, safety, fault, u)

(* Whole-object write, lines 1092-1101: the user's bytes are copied into   *)
(* the buffer whole0 and the buffer is handed to apply                     *)
WriteWholeEdit(c, whole0, user, op, new_size, local, safety, fault, u) ==
    IF c.halt # "no" THEN c
    ELSE WriteWholeApplied(c, op, new_size,
                           j_transformation_apply(
                               c.object.transformation,
                               Store(whole0, op.offset, user, op.length), new_size, 0,
                               <<>>, TRUE, new_size, 0, "CLIENT_WRITE", u.junk),
                           local, safety, fault, u)

(* Whole-object write, lines 1054-1074: inner is the read batch that read  *)
(* the object into the malloc'ed buffer; its result replaces ret           *)
WriteWholeRead(c0, inner, user, op, new_size, local, safety, fault, u) ==
    WriteWholeEdit([inner EXCEPT !.data = c0.data, !.bytes = c0.bytes, !.msg = c0.msg,
                                 !.opened = c0.opened],
                   inner.data, user, op, new_size, local, safety, fault, u)

(* A whole-object write that leases its connection before the loop, so    *)
(* that the read batch runs while the connection is held                   *)
WriteWholeOpHolding(c, op, local, safety, fault, u) ==
    LET c0 == j_transformation_object_load_object_size(c)
        original_size == c0.object.original_size
        new_size == IF original_size # 0
                    THEN Max(original_size, op.offset + op.length)
                    ELSE op.length
    IN  IF original_size # 0
        THEN WriteWholeRead(c0,
                            j_transformation_object_read_exec(
                                j_connection_pool_pop(
                                    [c0 EXCEPT !.data = Fill(new_size, u.junk), !.bytes = 0,
                                               !.ret = TRUE,
                                               !.msg = [count |-> 0, words |-> <<>>,
                                                        payload |-> <<>>, null |-> FALSE]]),
                                Chunks(original_size, 0, 0), local, safety, fault, u),
                            UserData(c, op, u.junk), op, new_size, local, safety, fault, u)
        ELSE WriteWholeEdit(c0, Fill(new_size, u.junk), UserData(c, op, u.junk), op,
                            new_size, local, safety, fault, u)

(* Whole-object write: lines 1040-1140 *)
WriteWholeOp(c, op, local, safety, fault, u) ==
    LET c0 == j_transformation_object_load_object_size(c)
        original_size == c0.object.original_size
        new_size == IF original_size # 0
                    THEN Max(original_size, op.offset + op.length)
                    ELSE op.length
    IN  IF original_size # 0
        THEN WriteWholeRead(c0,
                            j_transformation_object_read_exec(
                                [c0 EXCEPT !.data = Fill(new_size, u.junk), !.bytes = 0,
                                           !.ret = TRUE,
                                           !.msg = [count |-> 0, words |-> <<>>,
                                                    payload |-> <<>>, null |-> FALSE]],
                                Chunks(original_size, 0, 0), local, safety, fault, u),
                            UserData(c, op, u.junk), op, new_size, local, safety, fault, u)
        ELSE WriteWholeEdit(c0, Fill(new_size, u.junk), UserData(c, op, u.junk), op,
                            new_size, local, safety, fault, u)

(* Partial write, lines 1237-1244: the sizes grow if the write ends past them *)
WritePartialSizes(c, a, fault) ==
    LET c2 == j_transformation_object_load_object_size(c)
    IN  IF a.outoffset + a.outlength > c2.object.original_size
        THEN j_transformation_object_update_stored_metadata(
                 [c2 EXCEPT !.object.original_size = a.outoffset + a.outlength,
                            !.object.transformed_size = a.outoffset + a.outlength],
                 fault # "kv")
        ELSE c2

(* Partial write, lines 1212-1235: data is what apply left in data *)
WritePartialStored(c, a, data, local, safety, fault) ==
    IF local
    THEN WriteCounted(c, backend_write(c.store, data, a.outlength, a.outoffset,
                                       c.opened /\ (c.calls + 1) \notin BackendFails(fault)))
    ELSE [AddOp(c, OpWords(a.outlength, a.outoffset, c.object.transformation,
                           c.object.original_size, c.object.transformed_size),
                data, FALSE)
            EXCEPT !.bytes = IF safety = "NONE" THEN @ + a.outlength ELSE @]

WritePartialApplied(c, a, local, safety, fault, u) ==
    WritePartialSizes(WritePartialStored(c, a,
                                         [i \in 1..a.outlength |-> At(a.output, i, u.junk)],
                                         local, safety, fault),
                      a, fault)

(* Partial write: lines 1190-1246 *)
WritePartialOp(c, op, local, safety, fault, u) ==
    WritePartialApplied(c,
                        j_transformation_apply(
                            c.object.transformation, Mem(c.data, op.pos), op.length,
                            op.offset, Mem(c.data, op.pos), FALSE, op.length, op.offset,
                            "CLIENT_WRITE", u.junk),
                        local, safety, fault, u)

(* SERVER mode write, client-side backend: lines 1311-1319 *)
WriteServerLocal(c, w, fault) ==
    j_transformation_object_update_stored_metadata(
        [WriteCounted(c, w) EXCEPT !.object.original_size = w.original_size,
                                   !.object.transformed_size = w.transformed_size],
        fault # "kv")

(* SERVER mode write: lines 1292-1338 *)
WriteServerOp(c, op, local, safety, fault, u) ==
    LET c0 == j_transformation_object_load_object_size(c)
        data == UserData(c, op, u.junk)
    IN  IF local
        THEN WriteServerLocal(c0,
                 backend_transformation_object_write(
                     c0.store, c0.object.transformation, data, op.length, op.offset,
                     c0.object.original_size,
                     c0.opened /\ (c0.calls + 1) \notin BackendFails(fault), u.junk),
                 fault)
        ELSE [AddOp(c0, OpWords(op.length, op.offset, c0.object.transformation,
                                c0.object.original_size, c0.object.transformed_size),
                    data, FALSE)
                EXCEPT !.bytes = IF safety = "NONE" THEN @ + op.length ELSE @]

RECURSIVE WriteLoop(_, _, _, _, _, _, _, _)
WriteLoop(c, ops, j, kind, local, safety, fault, u) ==
    IF j > Len(ops) \/ c.halt # "no" THEN c
    ELSE WriteLoop(CASE kind = "whole" -> WriteWholeOp(c, ops[j], local, safety, fault, u)
                     [] kind = "partial" ->
                            WritePartialOp(c, ops[j], local, safety, fault, u)
                     [] OTHER -> WriteServerOp(c, ops[j], local, safety, fault, u),
                   ops, j + 1, kind, local, safety, fault, u)

(* The reply loop of a write: lines 1168-1175, 1275-1282, 1367-1378 *)
RECURSIVE WriteReplies(_, _, _, _, _, _, _)
WriteReplies(c, words, j, count, kind, fault, u) ==
    IF j > count THEN c
    ELSE LET k == IF kind = "server" THEN 3 * j - 2 ELSE j
             c1 == [c EXCEPT !.bytes = @ + At(words, k, u.junk)]
         IN  WriteReplies(IF kind = "server"
                          THEN j_transformation_object_update_stored_metadata(
                                   [c1 EXCEPT !.object.original_size =
                                                  At(words, k + 1, u.junk),
                                              !.object.transformed_size =
                                                  At(words, k + 2, u.junk)],
                                   fault # "kv")
                          ELSE c1,
                          words, j + 1, count, kind, fault, u)

(* j_message_send of a write request: the server handles it unless the     *)
(* send fails; payload the server leaves unread or still waits for leaves  *)
(* the connection out of step                                              *)
WriteDeliver(c, sops, s, flags, safety, fault) ==
    IF fault = "send" THEN [c EXCEPT !.lost = TRUE]
    ELSE [Deliver(c, "write", flags, c.msg.count, sops, s)
            EXCEPT !.pool.desync = s.stuck \/ Len(s.stream) > 0,
                   !.lost = @ \/ (fault = "receive" /\ safety # "NONE")]

(* The reply is awaited unless safety is NONE, then the connection is pushed *)
WriteAnswered(c, s, ops, kind, safety, fault, u) ==
    IF safety = "NONE" THEN j_connection_pool_push(c)
    ELSE IF fault \notin {"send", "receive"} /\ s.stuck THEN [c EXCEPT !.halt = "blocked"]
    ELSE j_connection_pool_push(
             WriteReplies(c, IF fault \in {"send", "receive"} \/ s.replies = <<>> THEN <<>>
                             ELSE s.replies[1].words,
                          1, Len(ops), kind, fault, u))

WriteServed(c, sops, s, ops, kind, flags, safety, fault, u) ==
    WriteAnswered(WriteDeliver(c, sops, s, flags, safety, fault),
                  s, ops, kind, safety, fault, u)

(* send, reply and push: lines 1148-1181, 1255-1288, 1347-1384.  A request *)
(* whose payload is a NULL buffer cannot be sent in full.                  *)
WriteExchange(c, ops, kind, safety, fault, u) ==
    LET c1 == j_connection_pool_pop(c)
        sops == ParseOps(c1.msg.words, c1.msg.count, u.junk)
        flags == j_message_set_semantics(safety)
    IN  IF c1.halt # "no" THEN c1
        ELSE IF c1.msg.null /\ u.crash THEN [c1 EXCEPT !.halt = "crashed"]
        ELSE WriteServed(c1, sops,
                         ServerWrite(c1.store, sops, c1.msg.payload, flags,
                                     BackendFails(fault)),
                         ops, kind, flags, safety, fault, u)

(* After the loop over the operations: close, or send and receive *)
WriteEnd(c, ops, kind, local, safety, fault, u) ==
    IF kind = "none" \/ c.halt # "no" \/ local THEN c
    ELSE WriteExchange(c, ops, kind, safety, fault, u)

(* write_exec once the transformation is known and the object is open *)
WriteBranch(c, ops, kind, local, safety, fault, u) ==
    WriteEnd(WriteLoop(c, ops, 1, kind, local, safety, fault, u),
             ops, kind, local, safety, fault, u)

j_transformation_object_write_exec(c, ops, local, safety, fault, u) ==
    LET c0 == ExecStart(c)
        c1 == IF local THEN ClientOpen(c0, fault) ELSE c0
    IN  IF c0.halt # "no" THEN c0
        ELSE WriteBranch(c1, ops, Branch(c1.object.transformation, "CLIENT_WRITE"),
                         local, safety, fault, u)

----------------------------------------------------------------------------
(* The application: one handle on one object, one call per batch *)

(* Buffers the application writes: one byte, two different bytes, a run *)
Buffers == {<<5>>, <<5, 7>>, Fill(MaxLen, 5)}

(* Offsets the application reads and writes at *)
Offsets == {0, 1}

FaultChoices ==
    IF cfg.faults /\ hist.fault = "none" THEN FaultKinds \cup {"none"} ELSE {"none"}

(* Reads and writes per run; a run with an injected fault is kept shorter *)
StepBound == IF cfg.faults THEN MaxFaultSteps ELSE MaxSteps

Usable == halt = "no" /\ (cfg.local \/ ~pool.desync)

Commit(c) ==
    /\ store' = c.store
    /\ kv' = c.kv
    /\ object' = c.object
    /\ pool' = c.pool
    /\ srv' = c.srv
    /\ halt' = c.halt

Result(op, c, length, offset, count, fault) ==
    [op |-> op, ret |-> c.ret, bytes |-> c.bytes, length |-> length, offset |-> offset,
     data |-> c.data, count |-> count, fault |-> fault, miss |-> c.miss, lost |-> c.lost,
     sent |-> c.sent, stat |-> c.stat, ops |-> <<>>]

Faulted(fault) == IF fault # "none" THEN fault ELSE hist.fault

(* j_transformation_object_new on the same namespace and name *)
NewHandle ==
    /\ halt = "no"
    /\ object # j_transformation_object_new
    /\ object' = j_transformation_object_new
    /\ UNCHANGED <<cfg, store, kv, res, hist, pool, srv, halt>>

(* The call returns c: results go to the application, history is kept *)
CreateDone(c, count, fault) ==
    /\ Commit(c)
    /\ res' = Result("create", c, 0, 0, count, fault)
    /\ hist' = [hist EXCEPT !.max_end = 0, !.written = <<>>,
                            !.fresh = IF c.ret /\ ~store.exists /\ ~kv.present
                                         /\ c.store.exists /\ c.kv.present
                                      THEN "created" ELSE "other",
                            !.fault = Faulted(fault)]

(* j_transformation_object_create (count times) and j_batch_execute *)
Create ==
    /\ Usable
    /\ \E count \in 1..MaxOps, fault \in FaultChoices :
          CreateDone(j_transformation_object_create_exec(
                         [Ctx EXCEPT !.object = [transformation |->
                                                    j_transformation_new(cfg.type, cfg.mode),
                                                 original_size |-> 0,
                                                 transformed_size |-> 0]],
                         count, cfg.local, cfg.safety, fault),
                     count, fault)
    /\ UNCHANGED cfg

DeleteDone(c, count, fault) ==
    /\ Commit(c)
    /\ res' = Result("delete", c, 0, 0, count, fault)
    /\ hist' = [hist EXCEPT !.max_end = 0, !.written = <<>>, !.fresh = "other",
                            !.fault = Faulted(fault)]

(* j_transformation_object_delete and j_batch_execute *)
Delete ==
    /\ Usable
    /\ \E count \in 1..MaxOps, fault \in FaultChoices :
          DeleteDone(j_transformation_object_delete_exec(Ctx, count, cfg.local, cfg.safety,
                                                         fault),
                     count, fault)
    /\ UNCHANGED cfg

WriteDone(c, buf, offset, ops, fault) ==
    LET done == c.ret /\ c.halt = "no"
        first == hist.fresh = "created" /\ offset = 0 /\ done
    IN  /\ Commit(c)
        /\ res' = [Result("write", c, Len(buf), offset, Len(ops), fault) EXCEPT !.ops = ops]
        /\ hist' = [steps |-> hist.steps + 1,
                    max_end |-> IF done THEN Max(hist.max_end, offset + Len(buf))
                                ELSE hist.max_end,
                    fresh |-> IF first THEN "written" ELSE "other",
                    written |-> IF first THEN buf ELSE <<>>,
                    fault |-> Faulted(fault)]

(* j_transformation_object_write and j_batch_execute *)
Write ==
    /\ Usable
    /\ hist.steps < StepBound
    /\ \E buf \in Buffers, offset \in Offsets, fault \in FaultChoices, u \in UBs :
          WriteDone(j_transformation_object_write_exec(
                        [Ctx EXCEPT !.data = buf], Chunks(Len(buf), offset, 0),
                        cfg.local, cfg.safety, fault, u),
                    buf, offset, Chunks(Len(buf), offset, 0), fault)
    /\ UNCHANGED cfg

ReadDone(c, length, offset, ops, fault) ==
    /\ Commit(c)
    /\ res' = [Result("read", c, length, offset, Len(ops), fault) EXCEPT !.ops = ops]
    /\ hist' = [hist EXCEPT !.steps = @ + 1, !.fault = Faulted(fault)]

(* j_transformation_object_read into a zeroed buffer and j_batch_execute *)
Read ==
    /\ Usable
    /\ hist.steps < StepBound
    /\ \E length \in 1..MaxLen, offset \in Offsets, fault \in FaultChoices, u \in UBs :
          ReadDone(j_transformation_object_read_exec(
                       [Ctx EXCEPT !.data = Fill(length, 0)], Chunks(length, offset, 0),
                       cfg.local, cfg.safety, fault, u),
                   length, offset, Chunks(length, offset, 0), fault)
    /\ UNCHANGED cfg

StatusDone(c, count, fault) ==
    /\ Commit(c)
    /\ res' = Result("status", c, 0, 0, count, fault)
    /\ hist' = [hist EXCEPT !.steps = @ + 1, !.fault = Faulted(fault)]

(* j_transformation_object_status_ext (count times) and j_batch_execute *)
Status ==
    /\ Usable
    /\ hist.steps < StepBound
    /\ \E count \in 1..MaxOps, fault \in FaultChoices, u \in UBs :
          StatusDone(j_transformation_object_status_exec(Ctx, count, cfg.local, cfg.safety,
                                                         fault, u),
                     count, fault)
    /\ UNCHANGED cfg

InitClient(faults, types, modes) ==
    /\ cfg \in [local : BOOLEAN, safety : Safeties, faults : {faults},
                type : types, mode : modes]
    /\ cfg.local => cfg.safety = "NONE"
    /\ store = NoObject
    /\ kv = NoRecord
    /\ object = j_transformation_object_new
    /\ res = NoResult
    /\ hist = NoHistory
    /\ pool = PoolInit
    /\ srv = SrvIdle
    /\ halt = "no"

Init == InitClient(FALSE, Types, Modes)

Next == NewHandle \/ Create \/ Delete \/ Write \/ Read \/ Status

Spec == Init /\ [][Next]_vars

(* The same application with one injected fault per run, on one object of  *)
(* each branch of the client: partial access, whole object, server side    *)
InitFault == InitClient(TRUE, {"NONE", "RLE"}, {"CLIENT", "SERVER"})

SpecFault == InitFault /\ [][Next]_vars

----------------------------------------------------------------------------
(* Properties of the client, checked under Spec and SpecFault *)

(* The call returned to the application *)
Returned(op) == res.op = op /\ halt = "no"

(* The last call went through one of the three write branches *)
InWriteBranch == Branch(object.transformation, "CLIENT_WRITE") # "none"

(* C1: for every type and mode, writing a buffer B at offset 0 to a freshly *)
(* created object and then reading a window [off, off+len) inside B         *)
(* succeeds and returns exactly B[off..off+len]                             *)
C1_WriteThenReadRoundTrip ==
    (Returned("read") /\ hist.fresh = "written"
       /\ res.offset + res.length <= Len(hist.written))
    => (res.ret /\ res.data = SubSeq(hist.written, res.offset + 1, res.offset + res.length))

(* C3: with safety NONE and a remote object server, the bytes_written      *)
(* counter of a write equals the length the user passed when the batch     *)
(* returns, in the whole-object, the partial and the SERVER mode branch     *)
C3_BytesWrittenIsLength ==
    (Returned("write") /\ ~cfg.local /\ cfg.safety = "NONE" /\ InWriteBranch)
    => res.bytes = res.length

(* C5: after successful writes, original_size in the handle and in the KV  *)
(* record is at least the largest offset+length written so far             *)
C5_OriginalSizeCoversWrites ==
    (Returned("write") /\ res.ret /\ InWriteBranch)
    => (object.original_size >= hist.max_end /\ kv.present
        /\ kv.original_size >= hist.max_end)

(* C6: after a create or a delete has finished and reported success, the   *)
(* underlying object exists if and only if its KV metadata record exists   *)
C6_ObjectIffRecord ==
    ((Returned("create") \/ Returned("delete")) /\ res.ret)
    => (store.exists <=> kv.present)

(* C7: an exec function returns TRUE only if every backend call and every  *)
(* KV batch it executed succeeded: no failure is masked by a later success *)
C7_NoFailureMasked ==
    (res.op # "none" /\ halt = "no" /\ res.miss) => ~res.ret

(* C8: if a backend call returns false at the server while it serves a     *)
(* request, the batch_execute that issued the request returns false        *)
C8_ServerFailureSurfaces ==
    (res.op # "none" /\ halt = "no" /\ srv.phase = "served" /\ srv.type = res.op
       /\ srv.failed)
    => ~res.ret

(* C9: if sending the request or receiving the reply fails, the exec       *)
(* function returns FALSE and the connection is closed instead of being    *)
(* pushed back into the pool                                               *)
C9_LostConnectionClosed ==
    (res.op # "none" /\ halt = "no" /\ res.lost)
    => (~res.ret /\ pool.closed = 1 /\ pool.idle = 0)

(* The request messages of the last call that have the call's own kind *)
SentOfKind == SelectSeq(res.sent, LAMBDA m : m.type = res.op)

(* The operations the last read or write call enqueued *)
Enqueued == res.ops

(* The message m carries one record of six words per enqueued operation,   *)
(* in enqueue order: where the record holds the operation's own length     *)
(* (partial and SERVER mode branch) the lengths follow the enqueue order   *)
RecordsInOrder(m, kind) ==
    /\ m.count = Len(Enqueued)
    /\ Len(m.words) = 6 * Len(Enqueued)
    /\ kind \in {"partial", "server"}
          => \A i \in 1..Len(Enqueued) : m.words[6 * i - 5] = Enqueued[i].length

(* The reply records of a request, in the order the server sent them *)
RECURSIVE ReplyRecords(_)
ReplyRecords(replies) ==
    IF replies = <<>> THEN <<>>
    ELSE [i \in 1..Head(replies).count |->
             [nbytes |-> Head(replies).words[i], bulk |-> Head(replies).bulk[i]]]
         \o ReplyRecords(Tail(replies))

(* A zeroed buffer after reply record j went to enqueued operation j *)
RECURSIVE InOrder(_, _, _, _)
InOrder(buf, recs, ops, j) ==
    IF j > Len(ops) THEN buf
    ELSE InOrder(Store(buf, ops[j].pos, recs[j].bulk, recs[j].nbytes), recs, ops, j + 1)

(* The bytes of a read whose replies are stored as they come (type NONE    *)
(* in the partial branch, every type in the SERVER mode branch) are those  *)
(* of reply record j at enqueued operation j                               *)
RepliesInOrder ==
    (res.op = "read" /\ (cfg.mode = "SERVER" \/ cfg.type \in {"NONE", "LZ4"})
       /\ srv.phase = "served" /\ srv.type = "read"
       /\ Len(ReplyRecords(srv.replies)) >= Len(Enqueued))
    => res.data = InOrder(Fill(res.length, 0), ReplyRecords(srv.replies), Enqueued, 1)

(* C11: a run of N operations of one kind on one object of a remote server *)
(* goes out as exactly one request message of that kind with N operation   *)
(* records in enqueue order, and the reply records are assigned to the     *)
(* operations in that order                                                *)
C11_OneMessageInEnqueueOrder ==
    ((Returned("read") \/ Returned("write")) /\ ~cfg.local)
    => /\ Len(SentOfKind) = 1
       /\ RecordsInOrder(SentOfKind[1], Branch(object.transformation, "CLIENT_WRITE"))
       /\ RepliesInOrder

(* The same for objects of mode CLIENT and SERVER *)
C11_InBranches ==
    ((Returned("read") \/ Returned("write")) /\ ~cfg.local
       /\ cfg.mode # "TRANSPORT")
    => /\ Len(SentOfKind) = 1
       /\ RecordsInOrder(SentOfKind[1], Branch(object.transformation, "CLIENT_WRITE"))
       /\ RepliesInOrder

(* C14: status reports as original_size the logical size recorded in the   *)
(* object's KV metadata record, not the backend's physical size, with a    *)
(* client-side object backend as well as over the network                  *)
C14_StatusReportsLogicalSize ==
    (Returned("status") /\ res.ret /\ kv.present)
    => \A j \in 1..Len(res.stat) : res.stat[j].original_size = kv.original_size

(* The same over the network only *)
C14_Remote ==
    (Returned("status") /\ res.ret /\ kv.present /\ ~cfg.local)
    => \A j \in 1..Len(res.stat) : res.stat[j].original_size = kv.original_size

(* C15: two status operations on the same object in one batch, with no     *)
(* write in between, return the same (mtime, original_size,                *)
(* transformed_size, type), with a client-side backend and against a       *)
(* remote server                                                           *)
C15_TwoStatusIdentical ==
    (Returned("status") /\ res.count = 2 /\ Len(res.stat) = 2)
    => res.stat[1] = res.stat[2]

(* The same with a client-side object backend only *)
C15_Local ==
    (Returned("status") /\ res.count = 2 /\ Len(res.stat) = 2 /\ cfg.local)
    => res.stat[1] = res.stat[2]

(* C16: after create and successful writes the recorded original_size      *)
(* equals the recorded transformed_size if and only if the object's type   *)
(* is size-preserving (NONE or XOR)                                        *)
C16_SizesEqualIffSizePreserving ==
    (Returned("write") /\ res.ret /\ kv.present)
    => ((kv.original_size = kv.transformed_size) <=> kv.type \in {"NONE", "XOR"})

(* The object exists, it has no KV metadata record and the handle has no   *)
(* cached transformation                                                   *)
NoRecordNoCache ==
    store.exists /\ ~kv.present /\ object.transformation = NoTransformation

(* C17: when the underlying object exists but has no KV metadata record, a *)
(* read, write or status through a handle without cached transformation    *)
(* proceeds, as for a (NONE, CLIENT) object, instead of aborting           *)
C17_NoRecordProceeds ==
    [][(NoRecordNoCache /\ hist'.steps = hist.steps + 1) => halt' = "no"]_vars

(* The same for status with a client-side object backend, which never      *)
(* looks at the transformation                                             *)
C17_LocalStatus ==
    [][(NoRecordNoCache /\ hist'.steps = hist.steps + 1 /\ res'.op = "status" /\ cfg.local)
          => halt' = "no"]_vars

(* C18: after batch_execute bytes_written is the number of bytes of the    *)
(* write the backend stored and bytes_read the number of bytes delivered   *)
(* to the user, also when the backend wrote or read fewer bytes than       *)
(* requested: a write during which the backend stored nothing leaves       *)
(* bytes_written at 0, a read of an object without data bytes_read at 0    *)
C18_CountersAreBytesMoved ==
    [][(hist'.steps = hist.steps + 1 /\ halt' = "no")
          => /\ (res'.op = "write" /\ store'.mtime = store.mtime) => res'.bytes = 0
             /\ (res'.op = "read" /\ store.data = <<>>) => res'.bytes = 0]_vars

(* The same for the partial branch with a client-side object backend,      *)
(* where the counters take what the backend call returned                  *)
C18_LocalPartial ==
    [][(hist'.steps = hist.steps + 1 /\ halt' = "no" /\ cfg.local
          /\ Branch(object'.transformation, "CLIENT_WRITE") = "partial")
          => /\ (res'.op = "write" /\ store'.mtime = store.mtime) => res'.bytes = 0
             /\ (res'.op = "read" /\ store.data = <<>>) => res'.bytes = 0]_vars

(* The operations ops are each at most max_operation_size long, ascending  *)
(* and contiguous, cover [offset, offset + length) and their data pointers *)
(* advance in step                                                         *)
Partition(ops, length, offset) ==
    /\ ops # <<>>
    /\ \A i \in 1..Len(ops) : ops[i].length \in 1..MaxOpSize
    /\ ops[1].offset = offset /\ ops[1].pos = 0
    /\ \A i \in 1..(Len(ops) - 1) :
          /\ ops[i + 1].offset = ops[i].offset + ops[i].length
          /\ ops[i + 1].pos = ops[i].pos + ops[i].length
    /\ ops[Len(ops)].offset + ops[Len(ops)].length = offset + length

(* What operation i of the last call moved: the bytes of a write, the      *)
(* bytes the backend or the server's reply record had for a read           *)
PieceBytes(i) ==
    IF res.op = "write" THEN res.ops[i].length
    ELSE IF cfg.local
         THEN backend_read(store, res.ops[i].length, res.ops[i].offset, TRUE).nbytes
         ELSE ReplyRecords(srv.replies)[i].nbytes

RECURSIVE SumPieces(_)
SumPieces(i) == IF i = 0 THEN 0 ELSE PieceBytes(i) + SumPieces(i - 1)

(* The calls whose operations add what they moved: partial and SERVER mode *)
(* branch; writes with a client-side backend that succeeded or with safety *)
(* NONE, reads with a client-side backend in the partial branch or with    *)
(* one reply record per operation                                          *)
CountsPieces ==
    /\ Branch(object.transformation, "CLIENT_WRITE") \in {"partial", "server"}
    /\ \/ res.op = "write" /\ (IF cfg.local THEN res.ret ELSE cfg.safety = "NONE")
       \/ /\ res.op = "read"
          /\ IF cfg.local THEN Branch(object.transformation, "CLIENT_WRITE") = "partial"
             ELSE /\ srv.phase = "served" /\ srv.type = "read"
                  /\ Len(ReplyRecords(srv.replies)) >= Len(res.ops)

----------------------------------------------------------------------------
(* References on the handle.  The repository holds three versions of the   *)
(* client's free callbacks: src/lib/transformation ("lib"), the older      *)
(* src/client/object ("client") and the copy in src/server/server.c        *)
(* ("server").  Here object is the JTransformationObject with its          *)
(* ref_count, whether its memory was freed and whether the application     *)
(* still holds its own reference; hist is the batch: the kinds of the      *)
(* operations whose free callback has not run yet, in enqueue order, and   *)
(* whether their exec function ran; res.after_free says what was accessed  *)
(* after it had been freed.                                                *)

Variants == {"lib", "client", "server"}

OpKinds == {"create", "delete", "read", "write", "status"}

(* What an access to freed memory amounts to: the old contents are still   *)
(* there, or the process stops                                             *)
Stale == {"intact", "crash"}

InitRef ==
    /\ cfg \in [variant : Variants]
    /\ object = [ref_count |-> 1, freed |-> FALSE, user |-> TRUE]
    /\ hist = [batch |-> <<>>, executed |-> FALSE]
    /\ res = [after_free |-> {}]
    /\ store = NoObject
    /\ kv = NoRecord
    /\ pool = PoolInit
    /\ srv = SrvIdle
    /\ halt = "no"

(* The state a free callback works on *)
Callback == [object |-> object, op_freed |-> FALSE, after_free |-> res.after_free]

j_transformation_object_ref(o) == [o EXCEPT !.ref_count = @ + 1]

(* An access through the pointer to the object *)
AccessObject(m) ==
    IF m.object.freed THEN [m EXCEPT !.after_free = @ \cup {"object"}] ELSE m

(* An access to a field of the operation record *)
AccessOperation(m) ==
    IF m.op_freed THEN [m EXCEPT !.after_free = @ \cup {"operation"}] ELSE m

(* g_atomic_int_dec_and_test and the frees of j_transformation_object_unref *)
DecAndTest(o) ==
    IF o.freed THEN o
    ELSE [o EXCEPT !.ref_count = @ - 1, !.freed = (o.ref_count = 1)]

j_transformation_object_unref(m) ==
    [AccessObject(m) EXCEPT !.object = DecAndTest(@)]

(* operation->write.object->transformation, handed to j_transformation_cleanup *)
CleanupArguments(m) == AccessObject(AccessOperation(m))

(* g_slice_free(JTransformationObjectOperation, operation) *)
FreeOperation(m) == [m EXCEPT !.op_freed = TRUE]

(* unref of operation->read.object, then the record is freed *)
j_transformation_object_read_free(m) ==
    FreeOperation(j_transformation_object_unref(AccessOperation(m)))

(* create and delete: the operation's data is the object itself *)
j_transformation_object_create_free(m) == j_transformation_object_unref(m)

(* src/lib/transformation: cleanup, unref, free of the record *)
write_free_lib(m) ==
    FreeOperation(j_transformation_object_unref(AccessOperation(CleanupArguments(m))))

(* src/client/object: unref, then the test of the object's transformation  *)
(* and cleanup, then free of the record                                    *)
write_free_client(m) ==
    FreeOperation(CleanupArguments(j_transformation_object_unref(AccessOperation(m))))

(* src/server/server.c: cleanup, free of the record, then unref of         *)
(* operation->write.object                                                 *)
write_free_server(m) ==
    j_transformation_object_unref(AccessOperation(FreeOperation(CleanupArguments(m))))

j_transformation_object_write_free(m, variant) ==
    CASE variant = "client" -> write_free_client(m)
      [] variant = "server" -> write_free_server(m)
      [] OTHER -> write_free_lib(m)

(* The free_func of an operation of the given kind *)
free_func(m, kind, variant) ==
    CASE kind = "write" -> j_transformation_object_write_free(m, variant)
      [] kind \in {"read", "status"} -> j_transformation_object_read_free(m)
      [] OTHER -> j_transformation_object_create_free(m)

(* j_transformation_object_create, _delete, _read, _write, _status_ext:    *)
(* the operation takes a reference and is added to the batch               *)
Enqueue ==
    /\ halt = "no" /\ object.user /\ ~hist.executed
    /\ Len(hist.batch) < MaxOps + 1
    /\ \E kind \in OpKinds :
          /\ object' = j_transformation_object_ref(object)
          /\ hist' = [hist EXCEPT !.batch = Append(@, kind)]
    /\ UNCHANGED <<cfg, store, kv, res, pool, srv, halt>>

(* The application drops its reference *)
Unref ==
    /\ halt = "no" /\ object.user
    /\ object' = [j_transformation_object_unref(Callback).object EXCEPT !.user = FALSE]
    /\ UNCHANGED <<cfg, store, kv, res, hist, pool, srv, halt>>

(* j_batch_execute: the exec function works on the operations' objects *)
Execute ==
    /\ halt = "no" /\ ~hist.executed /\ hist.batch # <<>>
    /\ hist' = [hist EXCEPT !.executed = TRUE]
    /\ res' = [res EXCEPT !.after_free = AccessObject(Callback).after_free]
    /\ UNCHANGED <<cfg, store, kv, object, pool, srv, halt>>

(* The batch frees its first operation: m is what the free_func did *)
Freed(m, stale) ==
    /\ object' = m.object
    /\ res' = [res EXCEPT !.after_free = m.after_free]
    /\ halt' = IF m.after_free # res.after_free /\ stale = "crash" THEN "crashed" ELSE "no"
    /\ hist' = [batch |-> Tail(hist.batch), executed |-> Len(hist.batch) > 1]

FreeCallback ==
    /\ halt = "no" /\ hist.executed
    /\ \E stale \in Stale : Freed(free_func(Callback, Head(hist.batch), cfg.variant), stale)
    /\ UNCHANGED <<cfg, store, kv, pool, srv>>

NextRef == Enqueue \/ Unref \/ Execute \/ FreeCallback

SpecRef == InitRef /\ [][NextRef]_vars

(* C20: each enqueued operation holds one reference on its object from     *)
(* enqueue until its free callback has run, the callback releases exactly  *)
(* that reference, and neither the operation record nor the object is      *)
(* accessed after it was freed, also when the application dropped its own  *)
(* reference before the batch was executed                                 *)
C20_OperationsHoldReferences ==
    /\ res.after_free = {}
    /\ ~object.freed
          => object.ref_count = Len(hist.batch) + (IF object.user THEN 1 ELSE 0)
    /\ object.freed => (hist.batch = <<>> /\ ~object.user)

(* The same for the callbacks of src/lib/transformation *)
C20_Lib ==
    cfg.variant = "lib"
    => /\ res.after_free = {}
       /\ ~object.freed
             => object.ref_count = Len(hist.batch) + (IF object.user THEN 1 ELSE 0)
       /\ object.freed => (hist.batch = <<>> /\ ~object.user)

(* C21: for a write to a mode SERVER object sent over the network the      *)
(* server applies the forward transformation before it calls its backend,  *)
(* its reply carries the resulting original and transformed size, and the  *)
(* KV metadata record holds exactly those sizes after batch_execute: after *)
(* the first write at offset 0 to a fresh object the stored bytes are the  *)
(* encoded buffer and the record holds the buffer's and the stored length  *)
C21_ServerEncodesAndReportsSizes ==
    (Returned("write") /\ res.ret /\ ~cfg.local /\ cfg.mode = "SERVER"
       /\ cfg.safety # "NONE" /\ hist.fresh = "written")
    => /\ store.data = apply_type(object.transformation, FALSE, hist.written,
                                  Len(hist.written), 0, 0).data
       /\ kv.present
       /\ kv.original_size = Len(hist.written)
       /\ kv.transformed_size = Len(store.data)

(* The same for the stored bytes of an object of type NONE, which the      *)
(* server stores as they come                                              *)
C21_TypeNoneStored ==
    (Returned("write") /\ res.ret /\ ~cfg.local /\ cfg.mode = "SERVER"
       /\ cfg.safety # "NONE" /\ hist.fresh = "written" /\ cfg.type = "NONE")
    => store.data = hist.written

----------------------------------------------------------------------------
(* Chunked transformation object: jchunked-transformation-object.c.  The   *)
(* object is a KV record (type, mode, chunk_count, chunk_size) and one     *)
(* transformation object "<name>_<i>" per chunk, each reached through a    *)
(* new handle.  Here store.chunks[i] is chunk i (its backend object and    *)
(* its KV record), kv the record of the chunked object, object the         *)
(* application's handle, and hist.flat a flat transformation object of the *)
(* same type and mode that receives the same calls.                        *)

(* The scenario "chunk_size 64, write 100 bytes at offset 50" *)
StraddlingWrite == [chunk_size |-> 64, length |-> 100, offset |-> 50]

ChunkSizes == {1, 2, StraddlingWrite.chunk_size}

ChunkIds == 0..(MaxOff + MaxLen)

NoChunk == [store |-> NoObject, kv |-> NoRecord]

NoChunkedRecord ==
    [present |-> FALSE, type |-> "NULL", mode |-> "NULL", chunk_count |-> 0, chunk_size |-> 0]

(* j_chunked_transformation_object_new: type, mode, chunk_count and        *)
(* chunk_size of the handle are not set                                    *)
j_chunked_transformation_object_new ==
    [type |-> "NULL", mode |-> "NULL", chunk_count |-> 0, chunk_size |-> 0]

(* The state a chunked exec function works on *)
ChunkedCtx ==
    [chunks |-> store.chunks, kv |-> kv, object |-> object, pool |-> pool,
     ret |-> TRUE, bytes |-> 0, data |-> <<>>, stat |-> <<>>, halt |-> "no"]

(* The state the exec function of chunk id works on, through a new handle *)
ChunkCtx(w, id, handle) ==
    [Ctx EXCEPT !.store = w.chunks[id].store, !.kv = w.chunks[id].kv,
                !.object = handle, !.pool = w.pool, !.data = w.data]

(* The inner batch goes on to its next operation *)
Going(w, local) == w.halt = "no" /\ (local \/ ~w.pool.desync)

(* What an exec function of chunk id left behind *)
Absorb(w, id, c) ==
    [w EXCEPT !.chunks[id] = [store |-> c.store, kv |-> c.kv], !.pool = c.pool,
              !.ret = @ /\ c.ret, !.bytes = @ + c.bytes, !.data = c.data,
              !.halt = c.halt]

j_chunked_transformation_object_store_metadata(w) ==
    [w EXCEPT !.kv = [present |-> TRUE, type |-> w.object.type, mode |-> w.object.mode,
                      chunk_count |-> w.object.chunk_count,
                      chunk_size |-> w.object.chunk_size]]

(* load_metadata that keeps what a used handle holds *)
LoadMetadataOnce(w) ==
    IF w.kv.present /\ w.object = j_chunked_transformation_object_new
    THEN [w EXCEPT !.object = [type |-> w.kv.type, mode |-> w.kv.mode,
                               chunk_count |-> w.kv.chunk_count,
                               chunk_size |-> w.kv.chunk_size]]
    ELSE w

j_chunked_transformation_object_load_metadata(w) ==
    IF w.kv.present
    THEN [w EXCEPT !.object = [type |-> w.kv.type, mode |-> w.kv.mode,
                               chunk_count |-> w.kv.chunk_count,
                               chunk_size |-> w.kv.chunk_size]]
    ELSE w

(* chunk_id > (object->chunk_count - 1) in guint64 *)
BeyondLast(chunk_id, chunk_count) == chunk_count # 0 /\ chunk_id > chunk_count - 1

(* The same loop with "local_length = chunk_size" *)
RECURSIVE ChunkPiecesWholeChunk(_, _, _, _, _, _)
ChunkPiecesWholeChunk(kind, length, offset, pos, chunk_size, chunk_count) ==
    IF length = 0 \/ (kind = "read" /\ BeyondLast(offset \div chunk_size, chunk_count))
    THEN <<>>
    ELSE LET chunk_id == offset \div chunk_size
             local_offset == offset % chunk_size
             local_length == Min(chunk_size, length)
             create == BeyondLast(chunk_id, chunk_count)
         IN  <<[chunk_id |-> chunk_id, local_offset |-> local_offset,
                local_length |-> local_length, pos |-> pos, create |-> create]>>
             \o ChunkPiecesWholeChunk(kind, length - local_length, offset + local_length,
                                      pos + local_length, chunk_size,
                                      IF create THEN chunk_count + 1 ELSE chunk_count)

(* The loops of read_exec (389-416) and write_exec (460-490): the calls    *)
(* on the chunks they enqueue, in order; pos is where data points into the *)
(* user's buffer, create whether the chunk is created first                *)
RECURSIVE ChunkPieces(_, _, _, _, _, _)
ChunkPieces(kind, length, offset, pos, chunk_size, chunk_count) ==
    IF length = 0 \/ (kind = "read" /\ BeyondLast(offset \div chunk_size, chunk_count))
    THEN <<>>
    ELSE LET chunk_id == offset \div chunk_size
             local_offset == offset % chunk_size
             local_length == Min(chunk_size - local_offset, length)
             create == BeyondLast(chunk_id, chunk_count)
         IN  <<[chunk_id |-> chunk_id, local_offset |-> local_offset,
                local_length |-> local_length, pos |-> pos, create |-> create]>>
             \o ChunkPieces(kind, length - local_length, offset + local_length,
                            pos + local_length, chunk_size,
                            IF create THEN chunk_count + 1 ELSE chunk_count)

(* j_transformation_object_create of a chunk and its exec *)
ChunkCreate(w, id, local, safety) ==
    IF ~Going(w, local) THEN w
    ELSE [Absorb(w, id,
                 j_transformation_object_create_exec(
                     ChunkCtx(w, id, [transformation |->
                                         j_transformation_new(w.object.type, w.object.mode),
                                      original_size |-> 0, transformed_size |-> 0]),
                     1, local, safety, "none"))
            EXCEPT !.data = w.data]

(* The handle of a chunk: new, and with the transformation that           *)
(* j_transformation_object_create set if the chunk is created through it   *)
ChunkHandle(w, p) ==
    IF p.create
    THEN [j_transformation_object_new
            EXCEPT !.transformation = j_transformation_new(w.object.type, w.object.mode)]
    ELSE j_transformation_object_new

(* j_transformation_object_write of a chunk and its exec *)
ChunkWrite(w, p, local, safety, u) ==
    IF ~Going(w, local) THEN w
    ELSE [Absorb(w, p.chunk_id,
                 j_transformation_object_write_exec(
                     ChunkCtx(w, p.chunk_id, ChunkHandle(w, p)),
                     Chunks(p.local_length, p.local_offset, p.pos),
                     local, safety, "none", u))
            EXCEPT !.data = w.data]

(* j_transformation_object_read of a chunk and its exec *)
ChunkRead(w, p, local, safety, u) ==
    IF ~Going(w, local) THEN w
    ELSE Absorb(w, p.chunk_id,
                j_transformation_object_read_exec(
                    ChunkCtx(w, p.chunk_id, j_transformation_object_new),
                    Chunks(p.local_length, p.local_offset, p.pos),
                    local, safety, "none", u))

(* j_batch_execute of the inner batch of a write *)
RECURSIVE ChunkedWriteBatch(_, _, _, _, _, _)
ChunkedWriteBatch(w, pieces, i, local, safety, u) ==
    IF i > Len(pieces) THEN w
    ELSE ChunkedWriteBatch(
             ChunkWrite(IF pieces[i].create THEN ChunkCreate(w, pieces[i].chunk_id,
                                                             local, safety)
                        ELSE w,
                        pieces[i], local, safety, u),
             pieces, i + 1, local, safety, u)

(* j_batch_execute of the inner batch of a read *)
RECURSIVE ChunkedReadBatch(_, _, _, _, _, _)
ChunkedReadBatch(w, pieces, i, local, safety, u) ==
    IF i > Len(pieces) THEN w
    ELSE ChunkedReadBatch(ChunkRead(w, pieces[i], local, safety, u),
                          pieces, i + 1, local, safety, u)

(* The write loop without "object->chunk_count += 1" *)
CreatedNone(pieces) == 0

(* The number of chunks the write loop created: 476-481 *)
Created(pieces) == Len(SelectSeq(pieces, LAMBDA p : p.create))

(* write_exec for one operation once the metadata is loaded: 451-499 *)
ChunkedWriteLoaded(w, pieces, local, safety, u) ==
    LET done == ChunkedWriteBatch([w EXCEPT !.object.chunk_count = @ + Created(pieces)],
                                  pieces, 1, local, safety, u)
    IN  IF done.halt # "no" THEN done
        ELSE j_chunked_transformation_object_store_metadata(done)

j_chunked_transformation_object_write_exec(w, length, offset, local, safety, u) ==
    LET w0 == j_chunked_transformation_object_load_metadata(w)
    IN  ChunkedWriteLoaded(w0, ChunkPieces("write", length, offset, 0,
                                           w0.object.chunk_size, w0.object.chunk_count),
                           local, safety, u)

j_chunked_transformation_object_read_exec(w, length, offset, local, safety, u) ==
    LET w0 == j_chunked_transformation_object_load_metadata(w)
    IN  ChunkedReadBatch(w0, ChunkPieces("read", length, offset, 0,
                                         w0.object.chunk_size, w0.object.chunk_count),
                         1, local, safety, u)

(* create_exec: chunk 0 is created, then chunk_count = 1 and the metadata  *)
(* is stored: 278-301                                                      *)
j_chunked_transformation_object_create_exec(w, local, safety) ==
    LET done == ChunkCreate(w, 0, local, safety)
    IN  IF done.halt = "no" /\ done.ret
        THEN [j_chunked_transformation_object_store_metadata(
                  [done EXCEPT !.object.chunk_count = 1]) EXCEPT !.ret = TRUE]
        ELSE [done EXCEPT !.ret = TRUE]

(* j_transformation_object_delete of the chunks 0 .. chunk_count - 1 *)
RECURSIVE ChunkedDeleteBatch(_, _, _, _)
ChunkedDeleteBatch(w, i, local, safety) ==
    IF i >= w.object.chunk_count \/ i \notin ChunkIds \/ ~Going(w, local) THEN w
    ELSE ChunkedDeleteBatch(
             Absorb(w, i, j_transformation_object_delete_exec(
                              ChunkCtx(w, i, j_transformation_object_new),
                              1, local, safety, "none")),
             i + 1, local, safety)

(* delete_exec: the chunks are deleted, then the record: 323-352 *)
j_chunked_transformation_object_delete_exec(w, local, safety) ==
    LET done == ChunkedDeleteBatch(j_chunked_transformation_object_load_metadata(w),
                                   0, local, safety)
    IN  IF done.halt = "no" /\ done.ret
        THEN [done EXCEPT !.kv = NoChunkedRecord, !.ret = done.kv.present]
        ELSE [done EXCEPT !.ret = TRUE]

(* j_transformation_object_status_ext of chunk i and its exec; the entry   *)
(* of local_transformed_size the exec does not fill holds what the stack   *)
(* held                                                                    *)
ChunkStatus(w, i, local, safety, u) ==
    IF ~Going(w, local) THEN w
    ELSE LET c == j_transformation_object_status_exec(
                      ChunkCtx(w, i, j_transformation_object_new), 1, local, safety,
                      "none", u)
         IN  [Absorb(w, i, c)
                EXCEPT !.data = w.data,
                       !.stat = @ \o (IF c.halt # "no" THEN <<>>
                                      ELSE IF local
                                      THEN <<[c.stat[1] EXCEPT !.transformed_size = u.junk]>>
                                      ELSE c.stat)]

RECURSIVE ChunkedStatusBatch(_, _, _, _, _)
ChunkedStatusBatch(w, i, local, safety, u) ==
    IF i >= w.object.chunk_count \/ i \notin ChunkIds THEN w
    ELSE ChunkedStatusBatch(ChunkStatus(w, i, local, safety, u), i + 1, local, safety, u)

RECURSIVE StatSum(_, _, _)
StatSum(stat, i, field) ==
    IF i = 0 THEN 0 ELSE stat[i][field] + StatSum(stat, i - 1, field)

RECURSIVE StatMax(_, _)
StatMax(stat, i) == IF i = 0 THEN 0 ELSE Max(stat[i].mtime, StatMax(stat, i - 1))

(* The sums and the maximum over the chunks: lines 547-562 *)
ChunkedStatusResult(w) ==
    IF w.halt # "no" THEN w
    ELSE [w EXCEPT !.stat = <<[mtime |-> StatMax(w.stat, Len(w.stat)),
                               original_size |-> StatSum(w.stat, Len(w.stat),
                                                         "original_size"),
                               transformed_size |-> StatSum(w.stat, Len(w.stat),
                                                            "transformed_size"),
                               type |-> w.object.type]>>,
                   !.ret = TRUE]

j_chunked_transformation_object_status_exec(w, local, safety, u) ==
    ChunkedStatusResult(
        ChunkedStatusBatch(j_chunked_transformation_object_load_metadata(w),
                           0, local, safety, u))

----------------------------------------------------------------------------
(* The application of a chunked object and of a flat object that receives  *)
(* the same calls                                                          *)

NoFlat ==
    [store |-> NoObject, kv |-> NoRecord, object |-> j_transformation_object_new,
     pool |-> PoolInit, halt |-> "no"]

NoChunkedResult ==
    [op |-> "none", ret |-> TRUE, bytes |-> 0, data |-> <<>>, length |-> 0, offset |-> 0,
     pieces |-> <<>>, stat |-> <<>>, before |-> NoChunkedRecord,
     held |-> j_chunked_transformation_object_new,
     handle |-> j_chunked_transformation_object_new,
     flat |-> [returned |-> FALSE, ret |-> TRUE, bytes |-> 0, data |-> <<>>]]

(* The objects the application makes: every type and mode on a local      *)
(* backend with chunks of two bytes, two of them on a remote one, and the  *)
(* plain object with the other chunk sizes                                 *)
ChunkedConfigs ==
    {c \in [local : BOOLEAN, safety : {"NONE", "NETWORK"}, faults : {FALSE},
            type : {"NONE", "RLE"}, mode : {"CLIENT", "SERVER"},
            chunk_size : ChunkSizes] :
        /\ c.local <=> c.safety = "NONE"
        /\ c.chunk_size # 2 => (c.local /\ c.type = "NONE" /\ c.mode = "CLIENT")
        /\ ~c.local => ((c.type = "NONE") <=> (c.mode = "CLIENT"))}

InitChunked ==
    /\ cfg \in ChunkedConfigs
    /\ store = [chunks |-> [i \in ChunkIds |-> NoChunk]]
    /\ kv = NoChunkedRecord
    /\ object = j_chunked_transformation_object_new
    /\ res = NoChunkedResult
    /\ hist = [steps |-> 0, flat |-> NoFlat, other |-> j_chunked_transformation_object_new]
    /\ pool = PoolInit
    /\ srv = SrvIdle
    /\ halt = "no"

FlatCtx(data) ==
    [Ctx EXCEPT !.store = hist.flat.store, !.kv = hist.flat.kv,
                !.object = hist.flat.object, !.pool = hist.flat.pool, !.data = data]

FlatUsable == hist.flat.halt = "no" /\ (cfg.local \/ ~hist.flat.pool.desync)

(* The flat object after its call returned c *)
FlatAfter(c) ==
    IF FlatUsable
    THEN [store |-> c.store, kv |-> c.kv, object |-> c.object, pool |-> c.pool,
          halt |-> c.halt]
    ELSE hist.flat

FlatResult(c) ==
    [returned |-> FlatUsable /\ c.halt = "no", ret |-> c.ret, bytes |-> c.bytes,
     data |-> c.data]

(* The chunked call returned w, the flat call f *)
ChunkedDone(op, w, f, length, offset, pieces, steps) ==
    /\ store' = [chunks |-> w.chunks]
    /\ kv' = w.kv
    /\ object' = w.object
    /\ pool' = w.pool
    /\ halt' = w.halt
    /\ res' = [op |-> op, ret |-> w.ret, bytes |-> w.bytes, data |-> w.data,
               length |-> length, offset |-> offset, pieces |-> pieces, stat |-> w.stat,
               before |-> kv, held |-> object, handle |-> w.object,
               flat |-> FlatResult(f)]
    /\ hist' = [hist EXCEPT !.steps = @ + steps, !.flat = FlatAfter(f)]
    /\ UNCHANGED <<cfg, srv>>

(* The handle is usable for calls other than create *)
ChunkedUsable ==
    /\ halt = "no" /\ (cfg.local \/ ~pool.desync)
    /\ kv.present \/ object # j_chunked_transformation_object_new

(* The application goes on with its other handle of the same object *)
ChunkedOtherHandle ==
    /\ halt = "no"
    /\ object # hist.other
    /\ object' = hist.other
    /\ hist' = [hist EXCEPT !.other = object]
    /\ UNCHANGED <<cfg, store, kv, res, pool, srv, halt>>

(* j_chunked_transformation_object_create and j_batch_execute *)
ChunkedCreate ==
    /\ halt = "no" /\ (cfg.local \/ ~pool.desync)
    /\ ~kv.present
    /\ ChunkedDone("create",
                   j_chunked_transformation_object_create_exec(
                       [ChunkedCtx EXCEPT !.object = [type |-> cfg.type, mode |-> cfg.mode,
                                                      chunk_count |-> object.chunk_count,
                                                      chunk_size |-> cfg.chunk_size]],
                       cfg.local, cfg.safety),
                   j_transformation_object_create_exec(
                       [FlatCtx(<<>>) EXCEPT !.object =
                           [transformation |-> j_transformation_new(cfg.type, cfg.mode),
                            original_size |-> 0, transformed_size |-> 0]],
                       1, cfg.local, cfg.safety, "none"),
                   0, 0, <<>>, 0)

(* j_chunked_transformation_object_delete and j_batch_execute *)
ChunkedDelete ==
    /\ ChunkedUsable
    /\ ChunkedDone("delete",
                   j_chunked_transformation_object_delete_exec(ChunkedCtx, cfg.local,
                                                               cfg.safety),
                   j_transformation_object_delete_exec(FlatCtx(<<>>), 1, cfg.local,
                                                       cfg.safety, "none"),
                   0, 0, <<>>, 0)

(* The pieces of a call through the handle as it is after load_metadata *)
PiecesOf(kind, length, offset) ==
    ChunkPieces(kind, length, offset, 0,
                j_chunked_transformation_object_load_metadata(ChunkedCtx).object.chunk_size,
                j_chunked_transformation_object_load_metadata(ChunkedCtx).object.chunk_count)

(* What the application writes: the small buffers at the small offsets     *)
(* and, on the object with the large chunks, the write that straddles     *)
(* three of them                                                           *)
ChunkedWrites ==
    {<<buf, offset>> : buf \in Buffers, offset \in 0..MaxOff}
    \cup (IF cfg.chunk_size = StraddlingWrite.chunk_size
          THEN {<<Fill(StraddlingWrite.length, 5), StraddlingWrite.offset>>}
          ELSE {})

(* j_chunked_transformation_object_write and j_batch_execute *)
ChunkedWrite ==
    /\ ChunkedUsable
    /\ hist.steps < MaxSteps
    /\ \E wr \in ChunkedWrites, u \in UBs :
          ChunkedDone("write",
                      j_chunked_transformation_object_write_exec(
                          [ChunkedCtx EXCEPT !.data = wr[1]], Len(wr[1]), wr[2],
                          cfg.local, cfg.safety, u),
                      j_transformation_object_write_exec(
                          FlatCtx(wr[1]), Chunks(Len(wr[1]), wr[2], 0),
                          cfg.local, cfg.safety, "none", u),
                      Len(wr[1]), wr[2], PiecesOf("write", Len(wr[1]), wr[2]), 1)

(* j_chunked_transformation_object_read into a zeroed buffer and j_batch_execute *)
ChunkedRead ==
    /\ ChunkedUsable
    /\ hist.steps < MaxSteps
    /\ \E length \in 1..MaxLen, offset \in 0..MaxOff, u \in UBs :
          ChunkedDone("read",
                      j_chunked_transformation_object_read_exec(
                          [ChunkedCtx EXCEPT !.data = Fill(length, 0)], length, offset,
                          cfg.local, cfg.safety, u),
                      j_transformation_object_read_exec(
                          FlatCtx(Fill(length, 0)), Chunks(length, offset, 0),
                          cfg.local, cfg.safety, "none", u),
                      length, offset, PiecesOf("read", length, offset), 1)

(* j_chunked_transformation_object_status_ext and j_batch_execute *)
ChunkedStatus ==
    /\ ChunkedUsable
    /\ hist.steps < MaxSteps
    /\ \E u \in UBs :
          ChunkedDone("status",
                      j_chunked_transformation_object_status_exec(ChunkedCtx, cfg.local,
                                                                  cfg.safety, u),
                      j_transformation_object_status_exec(FlatCtx(<<>>), 1, cfg.local,
                                                          cfg.safety, "none", u),
                      0, 0, <<>>, 1)

NextChunked ==
    \/ ChunkedOtherHandle \/ ChunkedCreate \/ ChunkedDelete
    \/ ChunkedWrite \/ ChunkedRead \/ ChunkedStatus

SpecChunked == InitChunked /\ [][NextChunked]_vars

----------------------------------------------------------------------------
(* The pieces of the last chunked read or write *)

RECURSIVE PieceLengths(_, _)
PieceLengths(pieces, i) ==
    IF i = 0 THEN 0 ELSE pieces[i].local_length + PieceLengths(pieces, i - 1)

ChunkedCall == res.op \in {"read", "write"} /\ res.length > 0 /\ halt = "no"

(* Ascending, contiguous, each inside the chunk its start offset lies in *)
PiecesInChunks ==
    /\ res.pieces # <<>> => res.pieces[1].pos = 0
    /\ \A i \in 1..Len(res.pieces) :
          /\ res.pieces[i].local_length > 0
          /\ res.pieces[i].local_offset + res.pieces[i].local_length
                <= res.handle.chunk_size
          /\ res.pieces[i].chunk_id
                = (res.offset + res.pieces[i].pos) \div res.handle.chunk_size
          /\ res.pieces[i].local_offset
                = (res.offset + res.pieces[i].pos) % res.handle.chunk_size
          /\ i < Len(res.pieces)
             => res.pieces[i + 1].pos = res.pieces[i].pos + res.pieces[i].local_length

(* The bytes of [off, off + len) that lie in the chunks the handle of a   *)
(* read counts after load_metadata                                         *)
WithinChunks ==
    IF res.handle.chunk_count = 0 THEN res.length
    ELSE Min(res.length,
             Max(0, res.handle.chunk_count * res.handle.chunk_size - res.offset))

(* C23 as stated: a chunked read or write of (off, len) with len > 0 is    *)
(* split into ascending, contiguous pieces, each inside one chunk, the     *)
(* piece starting at o in chunk floor(o / chunk_size) at local offset      *)
(* o mod chunk_size, and the lengths of the pieces sum to len.             *)
C23_PiecesCoverTheRange ==
    ChunkedCall
    => /\ PiecesInChunks
       /\ PieceLengths(res.pieces, Len(res.pieces)) = res.length

(* C23 amended: the same, but the pieces of a read stop with the last      *)
(* chunk of the object, so their lengths sum to the part of the range      *)
(* that lies inside the chunks; those of a write sum to len.               *)
C23_PiecesCoverTheChunks ==
    ChunkedCall
    => /\ PiecesInChunks
       /\ PieceLengths(res.pieces, Len(res.pieces)) =
             (IF res.op = "write" THEN res.length ELSE WithinChunks)

C23_Witness_ReadStopsAtLastChunk ==
    /\ ChunkedCall
    /\ res.op = "read"
    /\ Len(res.pieces) >= 2
    /\ PieceLengths(res.pieces, Len(res.pieces)) < res.length

----------------------------------------------------------------------------
(* The write that straddles three chunks, on a fresh object *)
StraddlingWritten ==
    /\ res.op = "write" /\ halt = "no"
    /\ cfg.type = "NONE" /\ cfg.mode = "CLIENT"
    /\ cfg.chunk_size = StraddlingWrite.chunk_size
    /\ res.length = StraddlingWrite.length /\ res.offset = StraddlingWrite.offset
    /\ hist.steps = 1
    /\ res.before.present /\ res.before.chunk_count = 1

(* C25: on a fresh chunked (NONE, CLIENT) object of chunk_size 64, a write *)
(* of 100 bytes at offset 50 leaves chunk_count 3; chunk 0 received 14     *)
(* bytes at local offset 50, chunk 1 64 bytes at 0, chunk 2 22 bytes at 0. *)
C25_StraddlesThreeChunks ==
    StraddlingWritten
    => /\ kv.chunk_count = 3 /\ res.handle.chunk_count = 3
       /\ res.pieces =
             <<[chunk_id |-> 0, local_offset |-> 50, local_length |-> 14, pos |-> 0,
                create |-> FALSE],
               [chunk_id |-> 1, local_offset |-> 0, local_length |-> 64, pos |-> 14,
                create |-> TRUE],
               [chunk_id |-> 2, local_offset |-> 0, local_length |-> 22, pos |-> 78,
                create |-> TRUE]>>
       /\ Len(store.chunks[0].store.data) = 64
       /\ SubSeq(store.chunks[0].store.data, 51, 64) = Fill(14, 5)
       /\ store.chunks[1].store.data = Fill(64, 5)
       /\ store.chunks[2].store.data = Fill(22, 5)
       /\ \A i \in ChunkIds \ {0, 1, 2} : store.chunks[i] = NoChunk

C25_Witness_Straddled == StraddlingWritten /\ res.ret

----------------------------------------------------------------------------
(* C24: between create and delete, every update of the stored metadata     *)
(* keeps chunk_size and never lowers chunk_count, whatever writes, reads    *)
(* and status calls are made through whatever handles.                      *)
C24_MetadataMonotone ==
    [][(kv.present /\ kv'.present)
       => (kv'.chunk_size = kv.chunk_size /\ kv'.chunk_count >= kv.chunk_count)]_vars

(* A write through a handle that held an older chunk_count grew the object *)
C24_Witness_GrownThroughStaleHandle ==
    /\ res.op = "write" /\ halt = "no"
    /\ res.before.present /\ res.before.chunk_count >= 2
    /\ kv.chunk_count > res.before.chunk_count
    /\ res.held.chunk_size = kv.chunk_size
    /\ res.held.chunk_count \in 1..(res.before.chunk_count - 1)

----------------------------------------------------------------------------
(* A read that returned from the chunked object and from the flat one *)
BothRead == res.op = "read" /\ halt = "no" /\ res.flat.returned

(* C22: for every type, mode, chunk size and sequence of writes, a read of *)
(* any window returns from the chunked object the bytes and the bytes_read *)
(* it returns from a flat object that received the same writes.            *)
C22_ChunkedReadsAsFlat ==
    BothRead => (res.data = res.flat.data /\ res.bytes = res.flat.bytes)

----------------------------------------------------------------------------
(* Specification of the application that writes runs of equal bytes to an  *)
(* (RLE, CLIENT) object: 300 bytes of 5 at offset 0, then 10 bytes of 7 at *)
(* offset 295, and reads windows of what it wrote.  max_operation_size is  *)
(* above the size of the object, so that each call is one operation.       *)
(* hist.run is the calls made since the object was created.                *)

RunOfFives == [data |-> Fill(300, 5), offset |-> 0]

TailOfSevens == [data |-> Fill(10, 7), offset |-> 295]

RunWrites == {RunOfFives, TailOfSevens}

(* length and offset of the windows the application reads *)
RunWindows == {<<50, 100>>, <<10, 295>>, <<300, 0>>, <<305, 0>>}

MaxRunSteps == 3

InitRuns ==
    /\ cfg \in [local : BOOLEAN, safety : Safeties, faults : {FALSE},
                type : {"RLE"}, mode : {"CLIENT"}, max_operation_size : {512}]
    /\ cfg.local => cfg.safety = "NONE"
    /\ store = NoObject
    /\ kv = NoRecord
    /\ object = j_transformation_object_new
    /\ res = NoResult
    /\ hist = [steps |-> 0, run |-> <<>>]
    /\ pool = PoolInit
    /\ srv = SrvIdle
    /\ halt = "no"

RunDone(op, c, length, offset, call) ==
    /\ Commit(c)
    /\ res' = Result(op, c, length, offset, 1, "none")
    /\ hist' = [steps |-> IF op \in {"create", "delete"} THEN 0 ELSE hist.steps + 1,
                run |-> CASE op = "create" -> <<call>>
                          [] op = "delete" -> <<>>
                          [] OTHER -> Append(hist.run, call)]
    /\ UNCHANGED cfg

RunCreate ==
    /\ Usable
    /\ ~store.exists /\ ~kv.present
    /\ RunDone("create",
               j_transformation_object_create_exec(
                   [Ctx EXCEPT !.object = [transformation |->
                                              j_transformation_new(cfg.type, cfg.mode),
                                           original_size |-> 0, transformed_size |-> 0]],
                   1, cfg.local, cfg.safety, "none"),
               0, 0, "create")

RunDelete ==
    /\ Usable
    /\ hist.run # <<>>
    /\ RunDone("delete",
               j_transformation_object_delete_exec(Ctx, 1, cfg.local, cfg.safety, "none"),
               0, 0, "delete")

RunWrite ==
    /\ Usable
    /\ hist.run # <<>> /\ hist.steps < MaxRunSteps
    /\ \E w \in RunWrites, u \in UBs :
          RunDone("write",
                  j_transformation_object_write_exec(
                      [Ctx EXCEPT !.data = w.data], Chunks(Len(w.data), w.offset, 0),
                      cfg.local, cfg.safety, "none", u),
                  Len(w.data), w.offset, IF w = RunOfFives THEN "fives" ELSE "sevens")

RunRead ==
    /\ Usable
    /\ hist.run # <<>> /\ hist.steps < MaxRunSteps
    /\ \E window \in RunWindows, u \in UBs :
          RunDone("read",
                  j_transformation_object_read_exec(
                      [Ctx EXCEPT !.data = Fill(window[1], 0)],
                      Chunks(window[1], window[2], 0),
                      cfg.local, cfg.safety, "none", u),
                  window[1], window[2], "read")

RunStatus ==
    /\ Usable
    /\ hist.run # <<>> /\ hist.steps < MaxRunSteps
    /\ \E u \in UBs :
          RunDone("status",
                  j_transformation_object_status_exec(Ctx, 1, cfg.local, cfg.safety,
                                                      "none", u),
                  0, 0, "status")

NextRuns == NewHandle \/ RunCreate \/ RunDelete \/ RunWrite \/ RunRead \/ RunStatus

SpecRuns == InitRuns /\ [][NextRuns]_vars

(* The calls since create, all of which returned TRUE so far *)
Ran(calls) == hist.run = calls /\ halt = "no" /\ res.ret

(* C26: writing 300 bytes of 5 at offset 0 to a fresh (RLE, CLIENT) object *)
(* leaves original_size 300 and transformed_size 4 with the stored bytes   *)
(* 255 5 43 5, and a following read of [100, 150) returns 50 bytes of 5.   *)
C26_RunOfFivesStoredAsTwoRuns ==
    /\ Ran(<<"create", "fives">>)
       => /\ kv.original_size = 300 /\ kv.transformed_size = 4
          /\ store.data = <<255, 5, 43, 5>>
    /\ (Ran(<<"create", "fives", "read">>) /\ res.length = 50 /\ res.offset = 100)
       => (res.data = Fill(50, 5) /\ res.bytes = 50)

(* C27: after the 300 bytes of 5, writing 10 bytes of 7 at offset 295      *)
(* yields original_size 305 and the content 295 bytes of 5 followed by 10  *)
(* bytes of 7.                                                             *)
C27_TailOverwritesAndExtends ==
    /\ Ran(<<"create", "fives", "sevens">>)
       => (kv.original_size = 305 /\ object.original_size = 305)
    /\ (Ran(<<"create", "fives", "sevens", "read">>) /\ res.length = 305 /\ res.offset = 0)
       => res.data = Fill(295, 5) \o Fill(10, 7)

----------------------------------------------------------------------------
(* The wire: what the server worker parsed of the client's last request *)

(* A write request of two or more operations went out in a branch that     *)
(* sends the operations as they were enqueued, and was served              *)
ManyWritesServed ==
    /\ Returned("write") /\ ~cfg.local
    /\ Branch(object.transformation, "CLIENT_WRITE") \in {"partial", "server"}
    /\ Len(res.ops) >= 2
    /\ srv.phase = "served" /\ srv.type = "write"

(* C28: in every request and reply the receiver consumes the fields the    *)
(* sender appended, in the same order and widths, so that in a message     *)
(* with N >= 2 operations the k-th record is decoded from the bytes the    *)
(* sender wrote for the k-th record.  Here: the k-th operation the server  *)
(* executes for a write request has the length and the offset of the k-th  *)
(* operation the client appended.                                          *)
C28_RecordsDecodedInPlace ==
    ManyWritesServed
    => /\ Len(srv.ops) = Len(res.ops)
       /\ \A k \in 1..Len(res.ops) :
             /\ srv.ops[k].length = res.ops[k].length
             /\ srv.ops[k].offset = res.ops[k].offset

(* The server answered the last request of the client *)
Answered == srv.phase = "served" /\ srv.type = res.op /\ srv.replies # <<>>

(* C29: for every safety level and every create, delete or write request   *)
(* the client waits for a reply if and only if the server sends one, so    *)
(* that batch_execute never blocks on a reply that is not coming and no    *)
(* unread reply stays on a connection that goes back to the pool.          *)
C29_WaitsIffReplied ==
    /\ halt # "blocked"
    /\ (res.op \in {"create", "delete", "write"} /\ halt = "no" /\ ~cfg.local
          /\ srv.phase = "served" /\ srv.type = res.op)
       => ((cfg.safety # "NONE") <=> Answered)

(* The second half alone: the wait condition and the reply condition agree *)
C29_ConditionsAgree ==
    (res.op \in {"create", "delete", "write"} /\ halt = "no" /\ ~cfg.local
       /\ srv.phase = "served" /\ srv.type = res.op)
    => ((cfg.safety # "NONE") <=> Answered)

(* One write call that went to a remote server as a run of two or more     *)
(* whole-object writes, the first calls on a freshly created object        *)
RunOfWholeWrites ==
    /\ Returned("write") /\ res.ret /\ ~cfg.local
    /\ Branch(object.transformation, "CLIENT_WRITE") = "whole"
    /\ Len(res.ops) >= 2
    /\ hist.fresh = "written"

(* C30: when one run holds several whole-object writes to the same object  *)
(* on a remote server, each read-modify-write works on the content the     *)
(* preceding writes of the run produced, so that the content and the sizes *)
(* in the end are those of the writes applied one after another.           *)
C30_WritesOfARunBuildOnEachOther ==
    RunOfWholeWrites
    => /\ kv.original_size = Len(hist.written)
       /\ store.data = apply_type(object.transformation, FALSE, hist.written,
                                  Len(hist.written), 0, 0).data
       /\ kv.transformed_size = Len(store.data)

----------------------------------------------------------------------------
(* Coalescing of the write handler (SpecServer) *)

WriteRequestServed == srv.phase = "served" /\ srv.type = "write" /\ ~srv.stuck /\ ~srv.failed

(* The backend writes of the request, in the order they were issued *)
RECURSIVE WritesOf(_)
WritesOf(log) ==
    IF log = <<>> THEN <<>>
    ELSE IF Head(log).ev = "write"
         THEN <<[offset |-> Head(log).off, length |-> Head(log).len]>> \o WritesOf(Tail(log))
         ELSE WritesOf(Tail(log))

(* The maximal groups of consecutive operations that abut and fit the      *)
(* scratch region, as ranges: cur is the group being built                 *)
RECURSIVE MaximalGroups(_, _, _)
MaximalGroups(ops, i, cur) ==
    IF i > Len(ops) THEN <<cur>>
    ELSE IF cur.offset + cur.length = ops[i].offset
            /\ cur.length + ops[i].length <= J_STRIPE_SIZE
         THEN MaximalGroups(ops, i + 1, [cur EXCEPT !.length = @ + ops[i].length])
         ELSE <<cur>> \o MaximalGroups(ops, i + 1,
                             [offset |-> ops[i].offset, length |-> ops[i].length])

(* The data after writing the operations one by one, each with its payload *)
RECURSIVE OneByOne(_, _, _, _)
OneByOne(st, ops, i, b) ==
    IF i > Len(ops) THEN st.data
    ELSE OneByOne(backend_write(st, Fill(ops[i].length, b + i - 1), ops[i].length,
                                ops[i].offset, TRUE).store, ops, i + 1, b)

(* C31: the backend writes of a write request are exactly the maximal      *)
(* groups of consecutive operations that abut and whose combined length    *)
(* fits the scratch region, in order, the tail included, and the stored    *)
(* data equals writing the operations one by one.                          *)
C31_WritesAreMaximalFittingGroups ==
    WriteRequestServed
    => /\ WritesOf(srv.log)
          = MaximalGroups(srv.ops, 2, [offset |-> srv.ops[1].offset,
                                       length |-> srv.ops[1].length])
       /\ \A i \in 1..Len(WritesOf(srv.log)) :
             WritesOf(srv.log)[i].length <= J_STRIPE_SIZE
       /\ ~srv.ub
       /\ store.data = OneByOne(srv.before, srv.ops, 1, srv.first)

(* C32: every read of write payload into the scratch buffer takes at most  *)
(* J_STRIPE_SIZE bytes, for the first operation of a request and for an    *)
(* operation that starts a new group after a flush as well.                *)
C32_MergeLengthWithinScratch ==
    (srv.phase = "served" /\ srv.type = "write")
    => \A i \in 1..Len(srv.log) :
          srv.log[i].ev = "write" => srv.log[i].len <= J_STRIPE_SIZE

----------------------------------------------------------------------------
(* Whole-object writes and reads of the (RLE, CLIENT) object (SpecRuns) *)

(* The step is a write call that returned TRUE to the application *)
RunWriteReturned ==
    /\ res'.op = "write" /\ hist'.steps = hist.steps + 1
    /\ halt' = "no" /\ res'.ret

(* C33: a whole-object write at (off, len) leaves a logical object of size *)
(* max(original_size, off+len), also when the object was empty before; the *)
(* bytes of [off, off+len) are the user's and the bytes of a gap between   *)
(* the old end and off are zero.                                           *)
C33_WholeWriteGrowsToItsEnd ==
    /\ [][RunWriteReturned
          => LET new_size == Max(kv.original_size, res'.offset + res'.length)
             IN  kv'.original_size = new_size /\ object'.original_size = new_size]_vars
    /\ []((Ran(<<"create", "sevens", "read">>) /\ res.length = 305 /\ res.offset = 0)
          => res.data = Fill(TailOfSevens.offset, 0) \o TailOfSevens.data)

----------------------------------------------------------------------------
(* Partial writes of the size-preserving types (Spec) *)

(* The forward encoding of one byte by a size-preserving type *)
EncodedByte(type, b) == IF type = "XOR" THEN 255 - b ELSE b

(* The step is a write call on a (NONE or XOR, CLIENT) object, through a   *)
(* client-side backend, that returned TRUE to the application              *)
PartialWriteReturned ==
    /\ cfg.local
    /\ res'.op = "write" /\ hist'.steps = hist.steps + 1
    /\ halt' = "no" /\ res'.ret
    /\ object'.transformation.mode = "CLIENT"
    /\ object'.transformation.type \in {"NONE", "XOR"}

(* C34: a write of len bytes at offset off to a (NONE or XOR, CLIENT)      *)
(* object stores the encoding of exactly the user's len bytes at physical  *)
(* offset off with length len, and raises the recorded sizes to off+len    *)
(* only if off+len exceeds original_size (stated for the client-side       *)
(* backend, where the stored bytes are what the client wrote).             *)
C34_PartialWriteStoredInPlace ==
    [][PartialWriteReturned
       => /\ Len(store'.data) >= res'.offset + res'.length
          /\ \A i \in 1..res'.length :
                store'.data[res'.offset + i]
                = EncodedByte(object'.transformation.type, res'.data[i])
          /\ kv'.original_size = Max(kv.original_size, res'.offset + res'.length)
          /\ kv'.transformed_size = Max(kv.transformed_size, res'.offset + res'.length)]_vars

----------------------------------------------------------------------------
(* The chunks of a chunked object and its chunk_count (SpecChunked) *)

(* The indices of the chunks that exist at the backend *)
ExistingChunks == {i \in ChunkIds : store.chunks[i].store.exists}

(* C35: after any sequence of chunked writes, a write that starts more     *)
(* than one chunk beyond the last chunk included, a chunk exists for       *)
(* exactly the indices below chunk_count.                                  *)
C35_ChunksAreTheIndicesBelowCount ==
    (res.op = "write" /\ halt = "no" /\ res.ret /\ kv.present)
    => ExistingChunks = 0..(kv.chunk_count - 1)

(* The number of bytes of the window [offset, offset + length) that lie    *)
(* inside an object of the given size                                      *)
InsideObject(length, offset, size) ==
    IF offset >= size THEN 0 ELSE Min(length, size - offset)

(* C36: a whole-object read of (off, len) copies and counts only bytes     *)
(* inside the decoded object: at most original_size - off bytes when       *)
(* off+len exceeds original_size, none when off >= original_size, and it   *)
(* never reads past the end of the decoded buffer.                         *)
C36_WholeReadStaysInsideObject ==
    (res.op = "read" /\ hist.run # <<>>)
    => /\ halt # "crashed"
       /\ res.bytes <= InsideObject(res.length, res.offset, kv.original_size)
       /\ \A i \in 1..res.length :
             i > InsideObject(res.length, res.offset, kv.original_size) => res.data[i] = 0

----------------------------------------------------------------------------
(* Leases of the connection pool (Spec) *)

----------------------------------------------------------------------------
(* The codecs as the write path runs them (SpecCodec) *)

(* The last call ran the forward codec of the type on res.input *)
Encoded(type) ==
    /\ res.op = "apply" /\ res.trafo.type = type
    /\ Direction(res.trafo.mode, res.caller) = "forward"
    /\ res.caller \in {"CLIENT_WRITE", "SERVER_WRITE"}

(* The size of the buffer the RLE encoder allocates for res.input *)
AllocatedSize == rle_size(res.input, 2, 0, res.input[1])

(* C39: the output size the sizing pass of the RLE encoder computes equals *)
(* the number of bytes the encoding pass writes, for every input, so the   *)
(* encoder stays inside the buffer it allocated and reports its size.      *)
C39_SizingPassMatchesEncodingPass ==
    Encoded("RLE")
    => (AllocatedSize = Len(res.output) /\ res.outlength = AllocatedSize)

(* C38: for every byte sequence B the inverse codec applied to the forward *)
(* encoding of B returns B with length |B|, for XOR and for RLE.           *)
C38_InverseOfForwardIsIdentity ==
    \A type \in {"XOR", "RLE"} :
       Encoded(type)
       => LET back == apply_type(res.trafo, TRUE, res.output, res.outlength, 0, res.junk)
          IN  /\ back.data = res.input
              /\ back.length = Len(res.input)

----------------------------------------------------------------------------
(* The safety level of a request at the server (SpecServer) *)

(* The level the flag bits encode *)
EncodedSafety(flags) ==
    IF "STORAGE" \in flags THEN "STORAGE"
    ELSE IF "NETWORK" \in flags THEN "NETWORK" ELSE "NONE"

(* C40: the safety level the server derives from the flags of a request is *)
(* the level the flag bits encode, for every combination of the STORAGE    *)
(* and NETWORK bits: STORAGE whenever the STORAGE bit is set, otherwise    *)
(* NETWORK when the NETWORK bit is set, otherwise NONE.                    *)
C40_SafetyDerivedFromFlagBits ==
    srv.phase = "served" => srv.safety = EncodedSafety(srv.flags)

====
